---- MODULE Spec2Model ----
(***************************************************************************)
(* kakoune-scrollback: the scrollback rendering pipeline.                  *)
(*                                                                         *)
(* process_bytes (src/terminal.rs) walks the rows of a VT-100 emulator --  *)
(* the retained scrollback and the live grid -- and turns them into lines  *)
(* of UTF-8 text with styled byte spans and a cursor in (line, byte)       *)
(* coordinates.  Text is modelled as a sequence of bytes, a face as the    *)
(* string the code formats, Option<T> as a sequence of length 0 or 1.      *)
(*                                                                         *)
(* Seven specifications share the variables, each leaving the components   *)
(* it does not run idle:                                                   *)
(*   Spec           process_bytes                      (src/terminal.rs)   *)
(*   SpecCapacity   process_bytes on an emulator whose scrollback is full  *)
(*   SpecPalette    cell_face, color_to_rgb, idx_to_rgb (src/palette.rs)   *)
(*   SpecOutput     materialize: write_text, write_ranges, write_init_kak  *)
(*                                                     (src/output.rs)     *)
(*   SpecNormalize  normalize_capture                  (src/tmux.rs)       *)
(*   SpecParse      parse_kitty_colors, parse_pipe_data_str,               *)
(*                  parse_window_id, parse_args  (src/palette.rs, kitty.rs,*)
(*                                                src/main.rs)             *)
(*   SpecRun        run_kitty, run_tmux: from the re-entry guard to the    *)
(*                  exec of the editor                 (src/main.rs)       *)
(***************************************************************************)
EXTENDS Integers, Sequences, FiniteSets, TLC

\* ------------------------------------------------------------------ bounds
Columns == 3        \* pipe_data.columns of the modelled grids
MaxHistory == 4     \* most rows of history: pipe_data.lines + retained scrollback
MaxDetailed == 1    \* most rows of a history whose cursor row is drawn from every row

\* usize::MAX of `screen.set_scrollback(usize::MAX)`: any value no smaller
\* than the scrollback length saturates to it; TLC's integers are 32 bits wide.
USIZE_MAX == 2147483647

DEFAULT_MAX_SCROLLBACK_LINES == 200000

\* ------------------------------------------------------------------ Option
None == <<>>
Some(x) == <<x>>
IsSome(o) == Len(o) = 1
Unwrap(o) == o[1]

Min(a, b) == IF a < b THEN a ELSE b
Max(a, b) == IF a > b THEN a ELSE b

\* ------------------------------------------------------------------ colours
\* vt100::Color
ColorDefault == [tag |-> "Default", v |-> <<>>]
ColorIdx(i) == [tag |-> "Idx", v |-> <<i>>]
ColorRgb(r, g, b) == [tag |-> "Rgb", v |-> <<r, g, b>>]

DEFAULT_PALETTE ==
  << 0, 0, 0,        204, 0, 0,      0, 204, 0,      204, 204, 0,
     0, 0, 204,      204, 0, 204,    0, 204, 204,    204, 204, 204,
     102, 102, 102,  255, 0, 0,      0, 255, 0,      255, 255, 0,
     0, 0, 255,      255, 0, 255,    0, 255, 255,    255, 255, 255 >>

\* palette[i] of a Rust [u8; 48] (0-based)
PaletteAt(palette, i) == palette[i + 1]

\* the closure to_val of idx_to_rgb, in u8 arithmetic
to_val(c) == IF c = 0 THEN 0 ELSE (55 + 40 * c) % 256

\* idx_to_rgb: panics below 16, the 6x6x6 cube below 232, then the grey ramp
idx_to_rgb(idx) ==
  IF idx < 16 THEN [panicked |-> TRUE, rgb |-> <<0, 0, 0>>]
  ELSE IF idx < 232
    THEN LET i == idx - 16
         IN [panicked |-> FALSE,
             rgb |-> <<to_val(i \div 36), to_val((i % 36) \div 6), to_val(i % 6)>>]
    ELSE LET val == (8 + 10 * (idx - 232)) % 256
         IN [panicked |-> FALSE, rgb |-> <<val, val, val>>]

\* color_to_rgb with the palette consulted for the eight standard colours only.
color_to_rgb_BrightFromCube(color, palette) ==
  IF color.tag = "Default" THEN [panicked |-> FALSE, rgb |-> None]
  ELSE IF color.tag = "Rgb" THEN [panicked |-> FALSE, rgb |-> Some(color.v)]
  ELSE LET idx == color.v[1]
       IN IF idx < 8
          THEN LET base == idx * 3
               IN [panicked |-> FALSE,
                   rgb |-> Some(<<PaletteAt(palette, base), PaletteAt(palette, base + 1),
                                  PaletteAt(palette, base + 2)>>)]
          ELSE LET t == idx_to_rgb(idx)
               IN [panicked |-> t.panicked,
                   rgb |-> IF t.panicked THEN None ELSE Some(t.rgb)]

\* color_to_rgb: None for Default, else Some([r, g, b]); panicked when the
\* call of idx_to_rgb panics
color_to_rgb(color, palette) ==
  IF color.tag = "Default" THEN [panicked |-> FALSE, rgb |-> None]
  ELSE IF color.tag = "Rgb" THEN [panicked |-> FALSE, rgb |-> Some(color.v)]
  ELSE LET idx == color.v[1]
       IN IF idx < 16
          THEN LET base == idx * 3
               IN [panicked |-> FALSE,
                   rgb |-> Some(<<PaletteAt(palette, base), PaletteAt(palette, base + 1),
                                  PaletteAt(palette, base + 2)>>)]
          ELSE LET t == idx_to_rgb(idx)
               IN [panicked |-> t.panicked,
                   rgb |-> IF t.panicked THEN None ELSE Some(t.rgb)]

HexDigit == <<"0", "1", "2", "3", "4", "5", "6", "7",
              "8", "9", "A", "B", "C", "D", "E", "F">>

\* {:02X}
Hex2(n) == HexDigit[(n \div 16) + 1] \o HexDigit[(n % 16) + 1]

FormatRgb(rgb) == "rgb:" \o Hex2(rgb[1]) \o Hex2(rgb[2]) \o Hex2(rgb[3])

\* color_to_kak: None for Default, else Some("rgb:RRGGBB")
color_to_kak(color, palette) ==
  IF color.tag = "Default" THEN None
  ELSE IF color.tag = "Rgb" THEN Some(FormatRgb(color.v))
  ELSE LET idx == color.v[1]
           rgb == IF idx < 16
                  THEN LET base == idx * 3
                       IN <<PaletteAt(palette, base), PaletteAt(palette, base + 1),
                            PaletteAt(palette, base + 2)>>
                  ELSE idx_to_rgb(idx).rgb
       IN Some(FormatRgb(rgb))

\* ------------------------------------------------------------------ cells
\* vt100::Cell as process_row reads it: contents() as UTF-8 bytes,
\* is_wide_continuation(), the two colours and the five flags.
MkCell(contents, cont, fg, bg, bold, dim, italic, underline, inverse) ==
  [contents |-> contents, cont |-> cont, fg |-> fg, bg |-> bg, bold |-> bold,
   dim |-> dim, italic |-> italic, underline |-> underline, inverse |-> inverse]

\* cell_face with the italic letter written before the dim letter.
cell_face_ItalicFirst(cell, palette) ==
  LET fg == color_to_kak(cell.fg, palette)
      bg == color_to_kak(cell.bg, palette)
      attrs == (IF cell.bold THEN "b" ELSE "")
               \o (IF cell.italic THEN "i" ELSE "")
               \o (IF cell.dim THEN "d" ELSE "")
               \o (IF cell.underline THEN "u" ELSE "")
               \o (IF cell.inverse THEN "r" ELSE "")
  IN IF ~IsSome(fg) /\ ~IsSome(bg) /\ attrs = "" THEN None
     ELSE LET fg_str == IF IsSome(fg) THEN Unwrap(fg) ELSE "default"
              bg_str == IF IsSome(bg) THEN Unwrap(bg) ELSE "default"
              attr_str == IF attrs = "" THEN "" ELSE "+" \o attrs
          IN Some(fg_str \o "," \o bg_str \o attr_str)

\* cell_face: None for a fully default style, else "<fg>,<bg>[+<attrs>]"
cell_face(cell, palette) ==
  LET fg == color_to_kak(cell.fg, palette)
      bg == color_to_kak(cell.bg, palette)
      attrs == (IF cell.bold THEN "b" ELSE "")
               \o (IF cell.dim THEN "d" ELSE "")
               \o (IF cell.italic THEN "i" ELSE "")
               \o (IF cell.underline THEN "u" ELSE "")
               \o (IF cell.inverse THEN "r" ELSE "")
  IN IF ~IsSome(fg) /\ ~IsSome(bg) /\ attrs = "" THEN None
     ELSE LET fg_str == IF IsSome(fg) THEN Unwrap(fg) ELSE "default"
              bg_str == IF IsSome(bg) THEN Unwrap(bg) ELSE "default"
              attr_str == IF attrs = "" THEN "" ELSE "+" \o attrs
          IN Some(fg_str \o "," \o bg_str \o attr_str)

\* ------------------------------------------------------------------ text
\* UTF-8 encodings of the characters with the Unicode White_Space property,
\* the characters str::trim_end removes.
WhiteSpace ==
  {<<9>>, <<10>>, <<11>>, <<12>>, <<13>>, <<32>>,
   <<194, 133>>, <<194, 160>>, <<225, 154, 128>>,
   <<226, 128, 168>>, <<226, 128, 169>>, <<226, 128, 175>>,
   <<226, 129, 159>>, <<227, 128, 128>>}
   \cup {<<226, 128, b>> : b \in 128..138}

EndsWith(text, w) ==
  /\ Len(w) <= Len(text)
  /\ SubSeq(text, Len(text) - Len(w) + 1, Len(text)) = w

\* text.trim_end().len()
RECURSIVE TrimEndLen(_)
TrimEndLen(text) ==
  IF \E w \in WhiteSpace : EndsWith(text, w)
  THEN LET w == CHOOSE w \in WhiteSpace : EndsWith(text, w)
       IN TrimEndLen(SubSeq(text, 1, Len(text) - Len(w)))
  ELSE Len(text)

\* spans.retain(|s| pred(s))
RECURSIVE Retain(_, _)
Retain(spans, max_byte) ==
  IF spans = <<>> THEN <<>>
  ELSE (IF Head(spans).start_byte < max_byte THEN <<Head(spans)>> ELSE <<>>)
       \o Retain(Tail(spans), max_byte)

MkSpan(start_byte, end_byte, face) ==
  [start_byte |-> start_byte, end_byte |-> end_byte, face |-> face]

\* ------------------------------------------------------------------ emulator
VARIABLES
  palette,            \* the 48-byte palette handed to process_bytes
  pipe_data,          \* KittyPipeData: lines, columns, cursor_x, cursor_y
  scrollback,         \* the emulator's retained scrollback rows, oldest first
  grid,               \* the emulator's live rows, top first
  scrollback_offset,  \* the emulator's viewport offset
  pc,                 \* position in process_bytes
  total_sb,           \* let total_sb
  cursor_output_line, \* let cursor_output_line
  row,                \* the `for row in 0..rows` counter
  offset,             \* the `for offset in (0..total_sb).rev()` counter
  lines,              \* let mut lines
  cursor              \* let mut cursor

vars == <<palette, pipe_data, scrollback, grid, scrollback_offset, pc, total_sb,
          cursor_output_line, row, offset, lines, cursor>>

\* What process_bytes is handed besides the bytes, and what the bytes did.
VARIABLES
  max_scrollback_lines, \* process_bytes: max_scrollback_lines
  scrolled_off          \* every row `data` scrolled off the top, oldest first

parserVars == <<max_scrollback_lines, scrolled_off>>

\* ------------------------------------------------------------------ components
\* The state of the calls made outside process_bytes.
VARIABLES
  resolution,         \* the call into palette.rs or cell_face, and its return
  screen,             \* the ProcessedScreen handed to output.rs
  window_id,          \* write_init_kak: window_id
  tmp_dir,            \* write_init_kak: tmp_dir
  max_chunk_size,     \* write_ranges: the cap on a command's length
  out_pc,             \* position in materialize's three writes
  text_file,          \* text.txt: None until written, then its bytes
  ranges_file,        \* ranges.kak: the lines written so far
  init_file,          \* init.kak: None until written, then its lines
  chunk,              \* write_ranges: let mut chunk
  chunk_has_entries,  \* write_ranges: let mut chunk_has_entries
  span_at,            \* write_ranges: <<line index, span index>> of the two loops
  stdin_data,         \* the capture as it was read, before normalize_capture
  data,               \* normalize_capture: data
  norm_r,             \* normalize_capture: let mut r
  norm_w,             \* normalize_capture: let mut w
  norm_pc,            \* position in normalize_capture
  calls,              \* the calls of normalize_capture made on the buffer
  first_result        \* the buffer as the first call left it

outputVars == <<screen, window_id, tmp_dir, max_chunk_size, out_pc, text_file,
                ranges_file, init_file, chunk, chunk_has_entries, span_at>>

\* no call made
NoCall == [call |-> "none"]

ResolutionIdle == resolution = NoCall

\* process_bytes not entered
TerminalIdle ==
  /\ max_scrollback_lines = 0
  /\ scrolled_off = <<>>
  /\ pipe_data = [lines |-> 1, columns |-> Columns, cursor_x |-> 0, cursor_y |-> 0]
  /\ scrollback = <<>>
  /\ grid = <<>>
  /\ scrollback_offset = 0
  /\ pc = "idle"
  /\ total_sb = 0
  /\ cursor_output_line = 0
  /\ row = 0
  /\ offset = 0
  /\ lines = <<>>
  /\ cursor = [line |-> 1, col |-> 1]

\* materialize not entered
OutputIdle ==
  /\ screen = [lines |-> <<>>, cursor |-> [line |-> 1, col |-> 1]]
  /\ window_id = 1
  /\ tmp_dir = ""
  /\ max_chunk_size = 0
  /\ out_pc = "idle"
  /\ text_file = None
  /\ ranges_file = <<>>
  /\ init_file = None
  /\ chunk = ""
  /\ chunk_has_entries = FALSE
  /\ span_at = <<0, 0>>

normalizeVars == <<stdin_data, data, norm_r, norm_w, norm_pc, calls, first_result>>

\* normalize_capture not entered
NormalizeIdle ==
  /\ stdin_data = <<>>
  /\ data = <<>>
  /\ norm_r = 0
  /\ norm_w = 0
  /\ norm_pc = "idle"
  /\ calls = 0
  /\ first_result = <<>>

\* One run of run_kitty / run_tmux, seen from outside the process:
\*   environment  KAKOUNE_SCROLLBACK in the environment of the run: None when
\*                unset, else Some(bytes) (an OsString, any bytes but NUL)
\*   backend      "kitty" (run_kitty) or "tmux" (run_tmux)
\*   run_pc       "start", "metadata", "input", "core", "exec"; then "execed"
\*                (the process is the editor), "returned" (Err) or "panicked"
\*   stdin_len    number of bytes waiting on standard input
\*   performed    the calls of the run made so far, in order
\*   scratch      the scratch directory of this run on disk
\*   tmp_guard    "none": no TempDir; "owned": a TempDir value that removes
\*                the directory when dropped; "kept": keep() was called
\*   run_result   None, or Some(the Err the run returned)
\*   editor       None, or Some(KAKOUNE_SCROLLBACK in the environment of the
\*                editor launched by the first run)
\*   depth        0 for a run started from the terminal, 1 for a run started
\*                from inside the launched editor
VARIABLES
  environment, backend, run_pc, stdin_len, performed, scratch, tmp_guard,
  run_result, editor, depth

runVars == <<environment, backend, run_pc, stdin_len, performed, scratch,
             tmp_guard, run_result, editor, depth>>

NoDir == [exists |-> FALSE, artifacts |-> <<>>]

\* no run started
RunIdle ==
  /\ environment = None
  /\ backend = "none"
  /\ run_pc = "idle"
  /\ stdin_len = 0
  /\ performed = <<>>
  /\ scratch = NoDir
  /\ tmp_guard = "none"
  /\ run_result = None
  /\ editor = None
  /\ depth = 0

\* what process_bytes leaves alone
beyondTerminal == <<parserVars, resolution, outputVars, normalizeVars, runVars>>

BeyondTerminalIdle == ResolutionIdle /\ OutputIdle /\ NormalizeIdle /\ RunIdle

\* what the colour functions leave alone
beyondResolution == <<vars, parserVars, outputVars, normalizeVars, runVars>>

\* what output.rs leaves alone
beyondOutput == <<vars, parserVars, resolution, normalizeVars, runVars>>

\* what normalize_capture leaves alone
beyondNormalize == <<vars, parserVars, resolution, outputVars, runVars>>

\* what a run leaves alone: the components above model its calls one by one
beyondRun == <<vars, parserVars, outputVars, normalizeVars>>

allVars == <<vars, parserVars, resolution, outputVars, normalizeVars, runVars>>

\* Retained with the capacity left out: every row that scrolled off is kept.
Retained_Unbounded(scrolled, scrollback_len) == scrolled

\* vt100::Parser::new(rows, cols, scrollback_len) after parser.process(data):
\* of the rows that scrolled off the top the emulator retains the newest
\* scrollback_len.
Retained(scrolled, scrollback_len) ==
  SubSeq(scrolled, Len(scrolled) - Min(Len(scrolled), scrollback_len) + 1, Len(scrolled))

\* screen.set_scrollback(n): the offset saturates at the scrollback length
set_scrollback(n) == Min(n, Len(scrollback))

\* The rows the viewport shows at offset o: the last o scrollback rows, then
\* the live rows that still fit.
VisibleRows(o) ==
  LET sb == SubSeq(scrollback, Len(scrollback) - o + 1, Len(scrollback))
      live == SubSeq(grid, 1, Max(Len(grid) - o, 0))
  IN sb \o live

\* screen.cell(row, col) at viewport offset o (0-based row and col)
ScreenCell(o, r, c) ==
  LET rows == VisibleRows(o)
  IN IF r < Len(grid) /\ r < Len(rows) /\ c < Len(rows[r + 1])
     THEN Some(rows[r + 1][c + 1]) ELSE None

\* ------------------------------------------------------------------ process_row
\* The state of the column loop.
RowInit(cursor_col) ==
  [text |-> <<>>, spans |-> <<>>, current_face |-> None, span_start_byte |-> 1,
   cursor_col |-> cursor_col]

\* RowStep with a span closed and reopened at every cell (no merging).
RowStep_NoMerge(st, cell, col, is_cursor_line) ==
  LET byte_offset_before == Len(st.text)
      cursor_col == IF is_cursor_line /\ col = pipe_data.cursor_x
                    THEN byte_offset_before + 1 ELSE st.cursor_col
      text == st.text \o (IF cell.contents = <<>> THEN <<32>> ELSE cell.contents)
      face == cell_face(cell, palette)
      byte_now == byte_offset_before + 1
      closed == IF IsSome(st.current_face) /\ st.span_start_byte < byte_now
                THEN Append(st.spans,
                            MkSpan(st.span_start_byte, byte_now, Unwrap(st.current_face)))
                ELSE st.spans
  IN [text |-> text, spans |-> closed, current_face |-> face,
      span_start_byte |-> byte_now, cursor_col |-> cursor_col]

\* RowStep with the open span kept across any two styled cells.
RowStep_AnyStyled(st, cell, col, is_cursor_line) ==
  LET byte_offset_before == Len(st.text)
      cursor_col == IF is_cursor_line /\ col = pipe_data.cursor_x
                    THEN byte_offset_before + 1 ELSE st.cursor_col
      text == st.text \o (IF cell.contents = <<>> THEN <<32>> ELSE cell.contents)
      face == cell_face(cell, palette)
      byte_now == byte_offset_before + 1
      closed == IF IsSome(st.current_face) /\ st.span_start_byte < byte_now
                THEN Append(st.spans,
                            MkSpan(st.span_start_byte, byte_now, Unwrap(st.current_face)))
                ELSE st.spans
  IN IF IsSome(face) # IsSome(st.current_face)
     THEN [text |-> text, spans |-> closed, current_face |-> face,
           span_start_byte |-> byte_now, cursor_col |-> cursor_col]
     ELSE [st EXCEPT !.text = text, !.cursor_col = cursor_col]

\* One iteration of `for col in 0..cols` on a cell that is present and is not
\* a wide continuation.
RowStep(st, cell, col, is_cursor_line) ==
  LET byte_offset_before == Len(st.text)
      cursor_col == IF is_cursor_line /\ col = pipe_data.cursor_x
                    THEN byte_offset_before + 1 ELSE st.cursor_col
      text == st.text \o (IF cell.contents = <<>> THEN <<32>> ELSE cell.contents)
      face == cell_face(cell, palette)
      byte_now == byte_offset_before + 1
      closed == IF IsSome(st.current_face) /\ st.span_start_byte < byte_now
                THEN Append(st.spans,
                            MkSpan(st.span_start_byte, byte_now, Unwrap(st.current_face)))
                ELSE st.spans
  IN IF face # st.current_face
     THEN [text |-> text, spans |-> closed, current_face |-> face,
           span_start_byte |-> byte_now, cursor_col |-> cursor_col]
     ELSE [st EXCEPT !.text = text, !.cursor_col = cursor_col]

\* RowLoop with wide continuation cells treated like any other cell.
RECURSIVE RowLoop_NoSkip(_, _, _, _, _, _)
RowLoop_NoSkip(st, o, r, col, cols, is_cursor_line) ==
  IF col >= cols THEN st
  ELSE LET c == ScreenCell(o, r, col)
       IN IF ~IsSome(c) THEN st
          ELSE RowLoop_NoSkip(RowStep(st, Unwrap(c), col, is_cursor_line),
                              o, r, col + 1, cols, is_cursor_line)

RECURSIVE RowLoop(_, _, _, _, _, _)
RowLoop(st, o, r, col, cols, is_cursor_line) ==
  IF col >= cols THEN st
  ELSE LET c == ScreenCell(o, r, col)
       IN IF ~IsSome(c) THEN st
          ELSE IF Unwrap(c).cont
            THEN RowLoop(st, o, r, col + 1, cols, is_cursor_line)
            ELSE RowLoop(RowStep(st, Unwrap(c), col, is_cursor_line),
                         o, r, col + 1, cols, is_cursor_line)

\* `// Close final span`
CloseFinal(st) ==
  LET byte_end == Len(st.text) + 1
  IN IF IsSome(st.current_face) /\ st.span_start_byte < byte_end
     THEN Append(st.spans, MkSpan(st.span_start_byte, byte_end, Unwrap(st.current_face)))
     ELSE st.spans

\* TrimRow with the last span's end left where it was.
TrimRow_NoClamp(text, spans) ==
  LET trimmed_len == TrimEndLen(text)
  IN IF trimmed_len < Len(text)
     THEN [text |-> SubSeq(text, 1, trimmed_len),
           spans |-> Retain(spans, trimmed_len + 1)]
     ELSE [text |-> text, spans |-> spans]

\* `// Trim trailing spaces from text` and the span adjustment
TrimRow(text, spans) ==
  LET trimmed_len == TrimEndLen(text)
      max_byte == trimmed_len + 1
      kept == Retain(spans, max_byte)
      n == Len(kept)
  IN IF trimmed_len < Len(text)
     THEN [text |-> SubSeq(text, 1, trimmed_len),
           spans |-> IF n > 0 /\ kept[n].end_byte > max_byte
                     THEN [kept EXCEPT ![n].end_byte = max_byte] ELSE kept]
     ELSE [text |-> text, spans |-> spans]

\* process_row at viewport offset o, row r: the ProcessedLine and the cursor
\* column it leaves in *cursor.
process_row(o, r, cols, is_cursor_line, cursor_col) ==
  LET st == RowLoop(RowInit(cursor_col), o, r, 0, cols, is_cursor_line)
  IN [line |-> TrimRow(st.text, CloseFinal(st)), cursor_col |-> st.cursor_col]

\* push_row with the cursor line left 0-based.
push_row_ZeroBased(o, r, ls, cur) ==
  LET line_idx == Len(ls)
      is_cursor_line == line_idx + 1 = cursor_output_line
      res == process_row(o, r, pipe_data.columns, is_cursor_line, cur.col)
  IN [lines |-> Append(ls, res.line),
      cursor |-> [line |-> IF is_cursor_line THEN line_idx ELSE cur.line,
                  col |-> res.cursor_col]]

\* push_row: the new lines and cursor
push_row(o, r, ls, cur) ==
  LET line_idx == Len(ls)
      is_cursor_line == line_idx + 1 = cursor_output_line
      res == process_row(o, r, pipe_data.columns, is_cursor_line, cur.col)
  IN [lines |-> Append(ls, res.line),
      cursor |-> [line |-> IF is_cursor_line THEN line_idx + 1 ELSE cur.line,
                  col |-> res.cursor_col]]

\* ------------------------------------------------------------------ inputs
\* The cells the emulator's rows are drawn from.
CellEmpty == MkCell(<<>>, FALSE, ColorDefault, ColorDefault,
                    FALSE, FALSE, FALSE, FALSE, FALSE)
CellA == MkCell(<<97>>, FALSE, ColorDefault, ColorDefault,
                FALSE, FALSE, FALSE, FALSE, FALSE)
\* "a" in SGR 31
CellRedIdx == MkCell(<<97>>, FALSE, ColorIdx(1), ColorDefault,
                     FALSE, FALSE, FALSE, FALSE, FALSE)
\* an erased cell that kept a background colour and the bold flag
CellStyledBlank == MkCell(<<>>, FALSE, ColorDefault, ColorIdx(2),
                          TRUE, FALSE, FALSE, FALSE, FALSE)
\* U+00A0 NO-BREAK SPACE in the direct colour SGR 38;2;204;0;0
CellNbsp == MkCell(<<194, 160>>, FALSE, ColorRgb(204, 0, 0), ColorDefault,
                   FALSE, FALSE, FALSE, FALSE, FALSE)
\* U+65E5, two columns wide, in SGR 31; its continuation cell keeps the style
CellWide == MkCell(<<230, 151, 165>>, FALSE, ColorIdx(1), ColorDefault,
                   FALSE, FALSE, FALSE, FALSE, FALSE)
CellWideCont == MkCell(<<>>, TRUE, ColorIdx(1), ColorDefault,
                       FALSE, FALSE, FALSE, FALSE, FALSE)

NarrowCells == {CellEmpty, CellA, CellRedIdx, CellStyledBlank, CellNbsp}

\* Every row of n columns over the cells above; a wide glyph is always
\* followed by its continuation cell.
RECURSIVE RowsOf(_)
RowsOf(n) ==
  IF n = 0 THEN {<<>>}
  ELSE {<<c>> \o r : c \in NarrowCells, r \in RowsOf(n - 1)}
       \cup (IF n >= 2 THEN {<<CellWide, CellWideCont>> \o r : r \in RowsOf(n - 2)}
             ELSE {})

\* The rows away from the cursor: a blank row and a row of text.
PlainRows == {[i \in 1..Columns |-> CellEmpty], [i \in 1..Columns |-> CellA]}

\* The cursor's row: any row when the history has at most MaxDetailed rows,
\* else a blank row, a row of text or a row of styled blanks.
CursorRows(n) ==
  IF n <= MaxDetailed THEN RowsOf(Columns)
  ELSE PlainRows \cup {[i \in 1..Columns |-> CellStyledBlank]}

SeqsOf(S, k) == [1..k -> S]

\* ------------------------------------------------------------------ process_bytes
\* The emulator after parser.process(data): `rows` live rows and the retained
\* scrollback, with validated grid metadata.
Init ==
  \E n \in 1..MaxHistory, rows \in 1..MaxHistory :
    /\ rows <= n
    /\ \E cx \in 0..(Columns - 1), cy \in 0..(rows - 1) :
         \E before \in SeqsOf(PlainRows, (n - rows) + cy),
            mid \in CursorRows(n),
            after \in SeqsOf(PlainRows, rows - cy - 1) :
           LET history == before \o <<mid>> \o after
           IN /\ max_scrollback_lines = DEFAULT_MAX_SCROLLBACK_LINES
              /\ scrolled_off = SubSeq(history, 1, n - rows)
              /\ scrollback = Retained(SubSeq(history, 1, n - rows),
                                       DEFAULT_MAX_SCROLLBACK_LINES)
              /\ grid = SubSeq(history, n - rows + 1, n)
              /\ pipe_data = [lines |-> rows, columns |-> Columns,
                              cursor_x |-> cx, cursor_y |-> cy]
    /\ palette = DEFAULT_PALETTE
    /\ scrollback_offset = 0
    /\ pc = "start"
    /\ total_sb = 0
    /\ cursor_output_line = 0
    /\ row = 0
    /\ offset = 0
    /\ lines = <<>>
    /\ cursor = [line |-> 1, col |-> 1]
    /\ BeyondTerminalIdle

\* `// Find total scrollback lines` up to `screen.set_scrollback(total_sb)`
FindTotalScrollback ==
  /\ pc = "start"
  /\ LET sb == set_scrollback(USIZE_MAX)
     IN /\ total_sb' = sb
        /\ cursor_output_line' = sb + pipe_data.cursor_y + 1
        /\ scrollback_offset' = set_scrollback(sb)
        /\ offset' = sb
  /\ row' = 0
  /\ pc' = "initial"
  /\ UNCHANGED <<palette, pipe_data, scrollback, grid, lines, cursor>>
  /\ UNCHANGED beyondTerminal

\* one iteration of `for row in 0..rows`
PushInitialRow ==
  /\ pc = "initial"
  /\ row < pipe_data.lines
  /\ LET res == push_row(scrollback_offset, row, lines, cursor)
     IN /\ lines' = res.lines
        /\ cursor' = res.cursor
  /\ row' = row + 1
  /\ pc' = IF row + 1 < pipe_data.lines THEN "initial"
           ELSE IF offset > 0 THEN "scrollback" ELSE "trim"
  /\ UNCHANGED <<palette, pipe_data, scrollback, grid, scrollback_offset,
                 total_sb, cursor_output_line, offset>>
  /\ UNCHANGED beyondTerminal

\* PushScrollbackRow reading at the offsets total_sb down to 1.
PushScrollbackRow_OffByOne ==
  /\ pc = "scrollback"
  /\ offset > 0
  /\ LET o == offset - 1
         so == set_scrollback(offset)
         res == push_row(so, pipe_data.lines - 1, lines, cursor)
     IN /\ offset' = o
        /\ scrollback_offset' = so
        /\ lines' = res.lines
        /\ cursor' = res.cursor
        /\ pc' = IF o > 0 THEN "scrollback" ELSE "trim"
  /\ UNCHANGED <<palette, pipe_data, scrollback, grid, total_sb,
                 cursor_output_line, row>>
  /\ UNCHANGED beyondTerminal

\* one iteration of `for offset in (0..total_sb).rev()`
PushScrollbackRow ==
  /\ pc = "scrollback"
  /\ offset > 0
  /\ LET o == offset - 1
         so == set_scrollback(o)
         res == push_row(so, pipe_data.lines - 1, lines, cursor)
     IN /\ offset' = o
        /\ scrollback_offset' = so
        /\ lines' = res.lines
        /\ cursor' = res.cursor
        /\ pc' = IF o > 0 THEN "scrollback" ELSE "trim"
  /\ UNCHANGED <<palette, pipe_data, scrollback, grid, total_sb,
                 cursor_output_line, row>>
  /\ UNCHANGED beyondTerminal

\* LastLineEmpty that never gives up the first line.
LastLineEmpty_KeepFirst(ls) ==
  /\ Len(ls) > 1
  /\ ls[Len(ls)].text = <<>>
  /\ ls[Len(ls)].spans = <<>>

\* the condition of `// Trim trailing empty lines`
LastLineEmpty(ls) ==
  /\ Len(ls) > 0
  /\ ls[Len(ls)].text = <<>>
  /\ ls[Len(ls)].spans = <<>>

\* one iteration of the trimming loop: lines.pop()
PopTrailingLine ==
  /\ pc = "trim"
  /\ LastLineEmpty(lines)
  /\ lines' = SubSeq(lines, 1, Len(lines) - 1)
  /\ UNCHANGED <<palette, pipe_data, scrollback, grid, scrollback_offset, pc,
                 total_sb, cursor_output_line, row, offset, cursor>>
  /\ UNCHANGED beyondTerminal

\* `// Clamp cursor if lines were trimmed`, then the screen is returned
ClampCursor ==
  /\ pc = "trim"
  /\ ~LastLineEmpty(lines)
  /\ cursor' = IF cursor.line > Len(lines)
               THEN [line |-> Max(Len(lines), 1), col |-> 1]
               ELSE cursor
  /\ pc' = "done"
  /\ UNCHANGED <<palette, pipe_data, scrollback, grid, scrollback_offset,
                 total_sb, cursor_output_line, row, offset, lines>>
  /\ UNCHANGED beyondTerminal

Next ==
  \/ FindTotalScrollback
  \/ PushInitialRow
  \/ PushScrollbackRow
  \/ PopTrailingLine
  \/ ClampCursor

Spec == Init /\ [][Next]_vars

\* ------------------------------------------------------------------ capacity
MaxScrolled == 3    \* most rows scrolled off the top, and the largest capacity
MaxRows == 2        \* most live rows of an emulator whose capacity is drawn

\* The emulator after parser.process(data) when the capacity is drawn from
\* 0..MaxScrolled: the bytes scrolled up to MaxScrolled rows off the top.
InitCapacity ==
  \E n \in 0..MaxScrolled, rows \in 1..MaxRows, capacity \in 0..MaxScrolled :
    /\ \E cx \in 0..(Columns - 1), cy \in 0..(rows - 1) :
         \E history \in SeqsOf(PlainRows, n + rows) :
           /\ max_scrollback_lines = capacity
           /\ scrolled_off = SubSeq(history, 1, n)
           /\ scrollback = Retained(SubSeq(history, 1, n), capacity)
           /\ grid = SubSeq(history, n + 1, n + rows)
           /\ pipe_data = [lines |-> rows, columns |-> Columns,
                           cursor_x |-> cx, cursor_y |-> cy]
    /\ palette = DEFAULT_PALETTE
    /\ scrollback_offset = 0
    /\ pc = "start"
    /\ total_sb = 0
    /\ cursor_output_line = 0
    /\ row = 0
    /\ offset = 0
    /\ lines = <<>>
    /\ cursor = [line |-> 1, col |-> 1]
    /\ BeyondTerminalIdle

SpecCapacity == InitCapacity /\ [][Next]_vars

\* ------------------------------------------------------------------ reference
\* What the claims speak of, computed from the emulator's rows alone.

\* The emulator's history, oldest row first.
History == scrollback \o grid

\* The cells of a row that are not wide continuations, in column order.
NonCont(cells) == SelectSeq(cells, LAMBDA c : ~c.cont)

\* The bytes a cell contributes: its contents, or one space.
Emitted(cell) == IF cell.contents = <<>> THEN <<32>> ELSE cell.contents

RECURSIVE RowBytes(_)
RowBytes(cells) ==
  IF cells = <<>> THEN <<>> ELSE Emitted(Head(cells)) \o RowBytes(Tail(cells))

\* The number of bytes emitted before the k-th cell of `cells`.
CellStart(cells, k) == Len(RowBytes(SubSeq(cells, 1, k - 1)))

\* The cell that emitted byte p (1-based) of the row's text.
CellOfByte(cells, p) ==
  CHOOSE k \in 1..Len(cells) : CellStart(cells, k) < p /\ p <= CellStart(cells, k + 1)

\* The byte offsets (0-based) at which a cell starts or the row ends.
CellBoundaries(cells) == {CellStart(cells, k) : k \in 1..(Len(cells) + 1)}

AsciiWhitespace == {9, 10, 11, 12, 13, 32}

RECURSIVE TrimAsciiEnd(_)
TrimAsciiEnd(text) ==
  IF text # <<>> /\ text[Len(text)] \in AsciiWhitespace
  THEN TrimAsciiEnd(SubSeq(text, 1, Len(text) - 1))
  ELSE text

\* The spans of a line that hold byte p.
SpansAt(line, p) ==
  {j \in 1..Len(line.spans) :
     line.spans[j].start_byte <= p /\ p < line.spans[j].end_byte}

\* The rendering of history row i, read through the viewport that has it as
\* its top row (a scrollback row) or through the live view (a live row).
LineOfHistory(i) ==
  LET sb == Len(scrollback)
  IN IF i <= sb
     THEN process_row(sb - i + 1, 0, pipe_data.columns, FALSE, 1).line
     ELSE process_row(0, i - sb - 1, pipe_data.columns, FALSE, 1).line

LineIsEmpty(line) == line.text = <<>> /\ line.spans = <<>>

\* The 1-based output line of the live cursor.
CursorHistoryLine == Len(scrollback) + pipe_data.cursor_y + 1

\* ------------------------------------------------------------------ claims

\* C1: for every screen process_bytes returns, when it has at least one line
\* 1 <= cursor.col <= byte_len(lines[cursor.line-1].text) + 1 for the line's
\* trimmed text, and cursor.col = 1 when it has no lines.
\* The column is taken from the untrimmed text: a cursor resting in the
\* trailing blanks of a row with text lies beyond the trimmed line.
C1_CursorColumnContained ==
  pc = "done" =>
    IF Len(lines) > 0
    THEN /\ cursor.line \in 1..Len(lines)
         /\ 1 <= cursor.col
         /\ cursor.col <= Len(lines[cursor.line].text) + 1
    ELSE cursor.col = 1

\* C2: the rows emitted are the history in oldest-to-newest order, each row
\* once, rows + scrollback_total in all; whole-screen trimming removes only a
\* suffix of blank lines, so output line i is history row i.
C2_RowLinearization ==
  /\ Len(lines) <= Len(History)
  /\ \A i \in 1..Len(lines) : lines[i] = LineOfHistory(i)
  /\ pc = "initial" => Len(lines) = row
  /\ pc = "scrollback" => Len(lines) = pipe_data.lines + (total_sb - offset)
  /\ pc \in {"scrollback", "trim", "done"} => total_sb = Len(scrollback)
  /\ pc \in {"trim", "done"} =>
       \A i \in (Len(lines) + 1)..Len(History) : LineIsEmpty(LineOfHistory(i))

C2_Witness ==
  /\ pc = "done"
  /\ Len(scrollback) >= 2
  /\ Len(grid) >= 2
  /\ Len(lines) = Len(History)
  /\ lines[1] # lines[2]
  /\ lines[2] # lines[3]

\* C5: cursor.line = scrollback_total + cursor_y + 1 whenever that line is
\* left after whole-screen trimming, else cursor.line = max(1, #lines) and
\* cursor.col = 1; always 1 <= cursor.line <= max(1, #lines).
C5_CursorLine ==
  pc = "done" =>
    /\ IF CursorHistoryLine <= Len(lines)
       THEN cursor.line = CursorHistoryLine
       ELSE cursor.line = Max(1, Len(lines)) /\ cursor.col = 1
    /\ 1 <= cursor.line
    /\ cursor.line <= Max(1, Len(lines))

C5_Witness ==
  /\ pc = "done"
  /\ Len(scrollback) >= 1
  /\ Len(lines) >= 1
  /\ CursorHistoryLine > Len(lines)
  /\ cursor = [line |-> Len(lines), col |-> 1]

\* C10: after process_bytes the last line, if any, has non-empty text or a
\* span; a grid of blank cells only, styled or not, yields no lines and the
\* cursor (1, 1).
AllBlank ==
  \A i \in 1..Len(History) : \A k \in 1..Len(History[i]) :
    History[i][k].contents \in {<<>>, <<32>>}

C10_NoTrailingBlankLine ==
  pc = "done" =>
    /\ Len(lines) > 0 => ~LineIsEmpty(lines[Len(lines)])
    /\ AllBlank => lines = <<>> /\ cursor = [line |-> 1, col |-> 1]

C10_Witness ==
  /\ pc = "done"
  /\ AllBlank
  /\ Len(History) >= 2
  /\ \E i \in 1..Len(History) : History[i][1] = CellStyledBlank
  /\ lines = <<>>

\* C3: for every byte position p of a line's final text, p lies inside a span
\* with face f iff the cell that emitted the byte has face Some(f); every span
\* boundary falls on a cell boundary; no span reaches beyond the trimmed text.
C3_SpanCoverageExact ==
  \A i \in 1..Len(lines) :
    LET line == lines[i]
        cells == NonCont(History[i])
    IN /\ \A p \in 1..Len(line.text) :
            /\ \E k \in 1..Len(cells) :
                 CellStart(cells, k) < p /\ p <= CellStart(cells, k + 1)
            /\ LET face == cell_face(cells[CellOfByte(cells, p)], palette)
               IN {line.spans[j].face : j \in SpansAt(line, p)}
                    = (IF IsSome(face) THEN {Unwrap(face)} ELSE {})
       /\ \A j \in 1..Len(line.spans) :
            /\ (line.spans[j].start_byte - 1) \in CellBoundaries(cells)
            /\ (line.spans[j].end_byte - 1) \in CellBoundaries(cells)
            /\ line.spans[j].start_byte <= Len(line.text)
            /\ line.spans[j].end_byte <= Len(line.text) + 1

\* A styled blank before text stays covered, a styled blank at the row's end
\* is covered by nothing.
C3_Witness ==
  /\ pc = "done"
  /\ Len(lines) >= 1
  /\ History[1] = <<CellStyledBlank, CellRedIdx, CellStyledBlank>>
  /\ lines[1].text = <<32, 97>>
  /\ Len(lines[1].spans) = 2

\* C4: whenever the cursor's output line survives whole-screen trimming,
\* cursor.col is 1 plus the bytes emitted for the cells of that row in display
\* columns < cursor_x.
\* A cursor on the continuation cell of a wide glyph is never translated:
\* the column keeps its initial value 1.
C4_CursorColumnTranslation ==
  (pc = "done" /\ CursorHistoryLine <= Len(lines)) =>
    cursor.col = 1 + Len(RowBytes(NonCont(
                     SubSeq(History[CursorHistoryLine], 1, pipe_data.cursor_x))))

\* C6: every span has 1 <= start_byte < end_byte <= byte_len(text) + 1, and
\* the spans of a line ascend strictly by start_byte without overlapping.
C6_SpanWellFormed ==
  \A i \in 1..Len(lines) :
    LET sp == lines[i].spans
    IN /\ \A j \in 1..Len(sp) :
            /\ 1 <= sp[j].start_byte
            /\ sp[j].start_byte < sp[j].end_byte
            /\ sp[j].end_byte <= Len(lines[i].text) + 1
       /\ \A j \in 1..(Len(sp) - 1) :
            /\ sp[j].start_byte < sp[j + 1].start_byte
            /\ sp[j].end_byte <= sp[j + 1].start_byte

\* A span that ran into trimmed trailing blanks and was clamped.
C6_Witness ==
  /\ pc = "done"
  /\ Len(lines) >= 1
  /\ History[1] = <<CellRedIdx, CellNbsp, CellEmpty>>
  /\ lines[1].text = <<97>>
  /\ lines[1].spans = <<MkSpan(1, 2, "rgb:CC0000,default")>>

\* C7 as stated: any two consecutive spans of a line have different faces.
\* Two runs of one face separated by unstyled cells give consecutive spans of
\* the same face.
C7_ConsecutiveSpansDiffer ==
  \A i \in 1..Len(lines) :
    \A j \in 1..(Len(lines[i].spans) - 1) :
      lines[i].spans[j].face # lines[i].spans[j + 1].face

\* C7 amended: two consecutive spans that touch (the first ends where the
\* second starts) have different faces.
C7_TouchingSpansDiffer ==
  \A i \in 1..Len(lines) :
    \A j \in 1..(Len(lines[i].spans) - 1) :
      lines[i].spans[j].end_byte = lines[i].spans[j + 1].start_byte
        => lines[i].spans[j].face # lines[i].spans[j + 1].face

C7_Witness ==
  /\ pc = "done"
  /\ Len(lines) >= 1
  /\ History[1] = <<CellRedIdx, CellStyledBlank, CellA>>
  /\ lines[1].spans = <<MkSpan(1, 2, "rgb:CC0000,default"),
                        MkSpan(2, 3, "default,rgb:00CC00+b")>>

\* C8: each line's text is the concatenation of the row's non-continuation
\* cells' contents (a space for empty contents) with only trailing ASCII
\* whitespace removed.
\* trim_end removes every trailing White_Space character, U+00A0 included.
C8_RowTextAsciiTrimmed ==
  \A i \in 1..Len(lines) :
    lines[i].text = TrimAsciiEnd(RowBytes(NonCont(History[i])))

\* The seven attribute fields of a cell.
Style(cell) ==
  <<cell.fg, cell.bg, cell.bold, cell.dim, cell.italic, cell.underline, cell.inverse>>

DefaultStyle == <<ColorDefault, ColorDefault, FALSE, FALSE, FALSE, FALSE, FALSE>>

\* Cells k and k+1 of a row lie in one span of its line.
InSameSpan(line, cells, k) ==
  \E j \in 1..Len(line.spans) :
    /\ line.spans[j].start_byte <= CellStart(cells, k) + 1
    /\ CellStart(cells, k + 2) < line.spans[j].end_byte

\* C9 as stated: two neighbouring non-continuation cells are in the same span
\* iff their seven attribute fields are equal and not all default.
\* Cells whose colours differ in variant but resolve to the same RGB share a
\* span, and cells trimmed off the row's end are in no span.
C9_SameSpanIffStyleEqual ==
  \A i \in 1..Len(lines) :
    LET cells == NonCont(History[i])
    IN \A k \in 1..(Len(cells) - 1) :
         InSameSpan(lines[i], cells, k)
           <=> (Style(cells[k]) = Style(cells[k + 1]) /\ Style(cells[k]) # DefaultStyle)

\* C9 amended: two neighbouring non-continuation cells whose bytes are left
\* after trailing trimming are in the same span iff their face strings are
\* equal and not None.
C9_SameSpanIffFaceEqual ==
  \A i \in 1..Len(lines) :
    LET cells == NonCont(History[i])
    IN \A k \in 1..(Len(cells) - 1) :
         CellStart(cells, k + 2) <= Len(lines[i].text) =>
           (InSameSpan(lines[i], cells, k)
              <=> /\ cell_face(cells[k], palette) = cell_face(cells[k + 1], palette)
                  /\ IsSome(cell_face(cells[k], palette)))

\* An indexed red cell and a direct-colour red cell in one span.
C9_Witness ==
  /\ pc = "done"
  /\ Len(lines) >= 1
  /\ History[1] = <<CellRedIdx, CellNbsp, CellA>>
  /\ lines[1].spans = <<MkSpan(1, 4, "rgb:CC0000,default")>>

\* ================================================================== palette
\* Calls of cell_face, color_to_rgb and idx_to_rgb on their own.
U8_MAX == 255

\* a palette as parse_kitty_colors can return it: 48 bytes, all overridden
ThemePalette == [i \in 1..48 |-> (i * 5 + 3) % 256]

Palettes == {DEFAULT_PALETTE, ThemePalette}

\* every vt100::Color with an index, and some with a triple
Colors ==
  {ColorDefault} \cup {ColorIdx(i) : i \in 0..U8_MAX}
  \cup {ColorRgb(r, g, b) : r \in {0, 171, U8_MAX}, g \in {0, U8_MAX}, b \in {0, 18}}

\* the colours of the cells handed to cell_face
FaceColors ==
  {ColorDefault, ColorIdx(0), ColorIdx(9), ColorIdx(15), ColorIdx(16), ColorIdx(67),
   ColorIdx(231), ColorIdx(232), ColorIdx(U8_MAX), ColorRgb(0, 0, 0),
   ColorRgb(U8_MAX, 0, 171)}

InitPalette ==
  /\ palette \in Palettes
  /\ TerminalIdle
  /\ ResolutionIdle
  /\ RunIdle
  /\ OutputIdle
  /\ NormalizeIdle

\* terminal.rs: cell_face(cell, palette)
CallCellFace ==
  /\ resolution = NoCall
  /\ \E fg \in FaceColors, bg \in FaceColors, flags \in [1..5 -> BOOLEAN] :
       LET cell == MkCell(<<>>, FALSE, fg, bg, flags[1], flags[2], flags[3],
                          flags[4], flags[5])
       IN resolution' = [call |-> "cell_face", arg |-> cell,
                         ret |-> cell_face(cell, palette)]
  /\ UNCHANGED beyondResolution

\* palette::color_to_rgb(color, palette)
CallColorToRgb ==
  /\ resolution = NoCall
  /\ \E color \in Colors :
       resolution' = [call |-> "color_to_rgb", arg |-> color,
                      ret |-> color_to_rgb(color, palette)]
  /\ UNCHANGED beyondResolution

\* palette::idx_to_rgb(idx)
CallIdxToRgb ==
  /\ resolution = NoCall
  /\ \E idx \in 0..U8_MAX :
       resolution' = [call |-> "idx_to_rgb", arg |-> idx, ret |-> idx_to_rgb(idx)]
  /\ UNCHANGED beyondResolution

NextPalette ==
  \/ CallCellFace
  \/ CallColorToRgb
  \/ CallIdxToRgb

SpecPalette == InitPalette /\ [][NextPalette]_allVars

\* ------------------------------------------------------------------ C11
UpperHex == {"0", "1", "2", "3", "4", "5", "6", "7", "8", "9",
             "A", "B", "C", "D", "E", "F"}

\* `default`, or `rgb:` and six uppercase hexadecimal digits
IsColourToken(s) ==
  \/ s = "default"
  \/ /\ Len(s) = 10
     /\ SubSeq(s, 1, 4) = "rgb:"
     /\ \A i \in 5..10 : SubSeq(s, i, i) \in UpperHex

AttrLetters == <<"b", "d", "i", "u", "r">>

\* t is made of letters of AttrLetters from position k on, in that order
RECURSIVE InAttrOrder(_, _)
InAttrOrder(t, k) ==
  IF t = "" THEN TRUE
  ELSE \E j \in k..Len(AttrLetters) :
         Head(t) = AttrLetters[j] /\ InAttrOrder(Tail(t), j + 1)

\* nothing, or `+` and at least one attribute letter
IsAttrSuffix(t) ==
  t = "" \/ (Len(t) >= 2 /\ Head(t) = "+" /\ InAttrOrder(Tail(t), 1))

HasLetter(t, ch) == \E i \in 1..Len(t) : SubSeq(t, i, i) = ch

\* the ways to read s as <colour>,<colour><suffix>: the colours' lengths
FaceSplits(s) ==
  {sp \in {7, 10} \X {7, 10} :
     /\ Len(s) >= sp[1] + 1 + sp[2]
     /\ IsColourToken(SubSeq(s, 1, sp[1]))
     /\ SubSeq(s, sp[1] + 1, sp[1] + 1) = ","
     /\ IsColourToken(SubSeq(s, sp[1] + 2, sp[1] + 1 + sp[2]))
     /\ IsAttrSuffix(SubSeq(s, sp[1] + sp[2] + 2, Len(s)))}

\* C11: cell_face returns None exactly for a cell with default foreground,
\* default background and no flag; any other face reads "<fg>,<bg>" with an
\* optional "+" and the letters of exactly the set flags in the order b, d, i,
\* u, r, each colour being `default` (exactly for a default colour) or `rgb:`
\* and six uppercase hex digits; a cell whose only style is its background has
\* a face, and process_row opens a span with it.
C11_FaceResolution ==
  resolution.call = "cell_face" =>
    LET cell == resolution.arg
        ret == resolution.ret
        flags == <<cell.bold, cell.dim, cell.italic, cell.underline, cell.inverse>>
        noFlag == \A k \in 1..5 : ~flags[k]
    IN /\ (ret = None) <=> (cell.fg = ColorDefault /\ cell.bg = ColorDefault /\ noFlag)
       /\ IsSome(ret) =>
            \E sp \in FaceSplits(Unwrap(ret)) :
              LET s == Unwrap(ret)
                  suffix == SubSeq(s, sp[1] + sp[2] + 2, Len(s))
              IN /\ (sp[1] = 7) <=> (cell.fg = ColorDefault)
                 /\ (sp[2] = 7) <=> (cell.bg = ColorDefault)
                 /\ \A k \in 1..5 : HasLetter(suffix, AttrLetters[k]) <=> flags[k]
       /\ (cell.fg = ColorDefault /\ cell.bg # ColorDefault /\ noFlag) =>
            /\ IsSome(ret)
            /\ CloseFinal(RowStep(RowInit(1), cell, 0, FALSE))
                 = <<MkSpan(1, 2, Unwrap(ret))>>

\* a blank cell whose only style is a bright red background
C11_Witness ==
  /\ resolution.call = "cell_face"
  /\ palette = DEFAULT_PALETTE
  /\ resolution.arg = MkCell(<<>>, FALSE, ColorDefault, ColorIdx(9),
                             FALSE, FALSE, FALSE, FALSE, FALSE)
  /\ resolution.ret = Some("default,rgb:FF0000")

\* ------------------------------------------------------------------ C12
\* the value of one coordinate of the 6x6x6 cube
CubeValue(c) == IF c = 0 THEN 0 ELSE 55 + 40 * c

\* C12: color_to_rgb returns None for Default, the triple of Rgb as it is, the
\* palette bytes idx*3 .. idx*3+2 below 16, the cube value of each coordinate
\* of idx - 16 below 232, and the grey 8 + 10 * (idx - 232) from 232 on, every
\* channel within 0..255 as computed without wrapping; it never panics, while
\* idx_to_rgb called with an index below 16 does.
C12_ColourResolution ==
  /\ resolution.call = "color_to_rgb" =>
       LET color == resolution.arg
           ret == resolution.ret
       IN /\ ~ret.panicked
          /\ color.tag = "Default" => ret.rgb = None
          /\ color.tag = "Rgb" => ret.rgb = Some(color.v)
          /\ color.tag = "Idx" =>
               LET idx == color.v[1]
               IN /\ idx < 16 =>
                       ret.rgb = Some(SubSeq(palette, idx * 3 + 1, idx * 3 + 3))
                  /\ (16 <= idx /\ idx < 232) =>
                       \E r \in 0..5, g \in 0..5, b \in 0..5 :
                         /\ idx = 16 + 36 * r + 6 * g + b
                         /\ ret.rgb = Some(<<CubeValue(r), CubeValue(g), CubeValue(b)>>)
                  /\ idx >= 232 =>
                       LET grey == 8 + 10 * (idx - 232)
                       IN ret.rgb = Some(<<grey, grey, grey>>)
          /\ IsSome(ret.rgb) => \A k \in 1..3 : Unwrap(ret.rgb)[k] \in 0..U8_MAX
  /\ (resolution.call = "idx_to_rgb" /\ resolution.arg < 16) =>
       resolution.ret.panicked

\* index 67 of the cube under a palette that overrides all sixteen colours
C12_Witness ==
  /\ resolution.call = "color_to_rgb"
  /\ palette = ThemePalette
  /\ resolution.arg = ColorIdx(67)
  /\ resolution.ret = [panicked |-> FALSE, rgb |-> Some(<<95, 135, 175>>)]

\* ================================================================== output
\* materialize (src/main.rs) writes text.txt, ranges.kak and init.kak from a
\* ProcessedScreen.  A file written with writeln! is the sequence of its lines.
MAX_CHUNK_SIZE == 900000

TightChunk == 60    \* a cap below the length of a command with one entry
SmallChunk == 100   \* a cap that commands with two entries can meet
MaxLines == 3       \* most lines of a screen
MaxDirLen == 3      \* most characters of the directory the scratch dir is in

\* s.replace(from, to) for a single character `from`
RECURSIVE Replace(_, _, _, _)
Replace(s, from, to, i) ==
  IF i > Len(s) THEN ""
  ELSE (IF SubSeq(s, i, i) = from THEN to ELSE SubSeq(s, i, i))
       \o Replace(s, from, to, i + 1)

escape_kak_single_quote(s) == Replace(s, "'", "''", 1)

\* escape_shell_single_quote with the quote doubled as for the editor.
escape_shell_single_quote_Doubled(s) == Replace(s, "'", "''", 1)

escape_shell_single_quote(s) == Replace(s, "'", "'\\''", 1)

escape_face(face) ==
  Replace(Replace(Replace(face, "\\", "\\\\", 1), "|", "\\|", 1), "'", "''", 1)

\* ------------------------------------------------------------------ write_text
\* the `for (i, line)` loop of write_text from line i on
RECURSIVE WriteLines(_, _)
WriteLines(ls, i) ==
  IF i >= Len(ls) THEN <<>>
  ELSE (IF i > 0 THEN <<10>> ELSE <<>>) \o ls[i + 1].text \o WriteLines(ls, i + 1)

\* write_text with no newline after the last line.
write_text_NoTrailingNewline(scr) == WriteLines(scr.lines, 0)

\* write_text: the bytes of text.txt
write_text(scr) ==
  WriteLines(scr.lines, 0) \o (IF scr.lines # <<>> THEN <<10>> ELSE <<>>)

\* ------------------------------------------------------------------ write_ranges
FirstCommand == "set-option buffer scrollback_colors %val{timestamp}"

AddCommand == "set-option -add buffer scrollback_colors"

\* let entry = format!(...)
FormatEntry(line_num, span) ==
  LET escaped_face == escape_face(span.face)
      end_byte_inclusive == span.end_byte - 1
  IN "'" \o ToString(line_num) \o "." \o ToString(span.start_byte) \o ","
     \o ToString(line_num) \o "." \o ToString(end_byte_inclusive) \o "|"
     \o escaped_face \o "'"

\* the span the two loops are at, from span j of line i on: Some(<<i, j>>),
\* or None when the loops are over
RECURSIVE SpanFrom(_, _, _)
SpanFrom(ls, i, j) ==
  IF i >= Len(ls) THEN None
  ELSE IF j < Len(ls[i + 1].spans) THEN Some(<<i, j>>)
  ELSE SpanFrom(ls, i + 1, 0)

\* PushEntry with the entry that overflows a command dropped with the flush.
PushEntry_DropOnFlush(file, ch, has, entry, cap) ==
  IF Len(ch) + 1 + Len(entry) > cap /\ has
  THEN [file |-> Append(file, ch), chunk |-> AddCommand]
  ELSE [file |-> file, chunk |-> ch \o " " \o entry]

\* PushEntry with the flush made whether or not the command has entries.
PushEntry_FlushEmpty(file, ch, has, entry, cap) ==
  IF Len(ch) + 1 + Len(entry) > cap
  THEN [file |-> Append(file, ch), chunk |-> AddCommand \o " " \o entry]
  ELSE [file |-> file, chunk |-> ch \o " " \o entry]

\* the body of the span loop after the entry is formatted: flush, then push
PushEntry(file, ch, has, entry, cap) ==
  IF Len(ch) + 1 + Len(entry) > cap /\ has
  THEN [file |-> Append(file, ch), chunk |-> AddCommand \o " " \o entry]
  ELSE [file |-> file, chunk |-> ch \o " " \o entry]

\* ------------------------------------------------------------------ write_init_kak
\* `// Range-specs declaration + apply` with the script sourced first.
RangeSetup_SourceFirst(ranges_path_kak) ==
  <<"source '" \o ranges_path_kak \o "'",
    "declare-option -hidden range-specs scrollback_colors",
    "add-highlighter buffer/ ranges scrollback_colors",
    "update-option buffer scrollback_colors",
    "">>

\* `// Range-specs declaration + apply`
RangeSetup(ranges_path_kak) ==
  <<"declare-option -hidden range-specs scrollback_colors",
    "add-highlighter buffer/ ranges scrollback_colors",
    "source '" \o ranges_path_kak \o "'",
    "update-option buffer scrollback_colors",
    "">>

\* `// Cleanup hook`
CleanupHook(tmp_dir_sh) ==
  <<"hook -always global ClientClose .* %{",
    "    evaluate-commands %sh{",
    "        if [ -d '" \o tmp_dir_sh
      \o "' ] && [ \"$(printf '%s' \"$kak_client_list\" | wc -w)\" -le 1 ]; then",
    "            rm -rf -- '" \o tmp_dir_sh \o "'",
    "        fi",
    "    }",
    "}">>

\* write_init_kak: the lines of init.kak
write_init_kak(scr, wid, dir, ranges_path) ==
  LET tmp_dir_kak == escape_kak_single_quote(dir)
      tmp_dir_sh == escape_shell_single_quote(dir)
      ranges_path_kak == escape_kak_single_quote(ranges_path)
      line == ToString(scr.cursor.line)
      col == ToString(scr.cursor.col)
  IN <<"set-option global scrollback_kitty_window_id '" \o ToString(wid) \o "'",
       "",
       "set-option buffer readonly true",
       "set-option buffer scrollback_tmp_dir '" \o tmp_dir_kak \o "'",
       "">>
     \o RangeSetup(ranges_path_kak)
     \o <<"select " \o line \o "." \o col \o "," \o line \o "." \o col,
          "execute-keys vb",
          "",
          "kakoune-scrollback-setup-keymaps",
          "">>
     \o CleanupHook(tmp_dir_sh)

\* ------------------------------------------------------------------ materialize
\* ProcessedLines: empty, plain text, one span, two spans with a gap
LineEmpty == [text |-> <<>>, spans |-> <<>>]

LinePlain == [text |-> <<97>>, spans |-> <<>>]

LineRed == [text |-> <<97, 98>>, spans |-> <<MkSpan(1, 2, "rgb:CC0000,default")>>]

LineTwoSpans ==
  [text |-> <<104, 101, 108, 108, 111, 32, 119, 111, 114, 108, 100, 33>>,
   spans |-> <<MkSpan(1, 6, "default,rgb:00CC00+b"),
               MkSpan(7, 12, "rgb:CC0000,rgb:0000CC+bdiur")>>]

OutputLines == {LineEmpty, LinePlain, LineRed, LineTwoSpans}

Screens == UNION {SeqsOf(OutputLines, n) : n \in 0..MaxLines}

\* const MAX_CHUNK_SIZE, and two caps that screens of MaxLines lines overflow
ChunkCaps == {TightChunk, SmallChunk, MAX_CHUNK_SIZE}

\* the characters of a directory name that matter to the two quotings
DirChars == {"'", "\\", "a"}

RECURSIVE DirNames(_)
DirNames(n) ==
  IF n = 0 THEN {""}
  ELSE {""} \cup {c \o t : c \in DirChars, t \in DirNames(n - 1)}

\* tempfile::Builder::new().prefix("ksb-").tempdir() under a temporary directory
ScratchDir(parent) == "/" \o parent \o "/ksb-1"

WindowIds == {1, 42}

\* tmp_dir.path().join("ranges.kak")
RangesPath(dir) == dir \o "/ranges.kak"

\* The state at the entry of materialize.  Screens with more than one line
\* come with the plain scratch directory and one window.
InitOutput ==
  /\ \E ls \in Screens, parent \in DirNames(MaxDirLen), cap \in ChunkCaps,
        wid \in WindowIds, at_end \in BOOLEAN :
       /\ Len(ls) > 1 => (parent = "a" /\ wid = 42)
       /\ parent # "a" => cap = MAX_CHUNK_SIZE
       /\ screen = [lines |-> ls,
                    cursor |-> IF at_end THEN [line |-> Max(Len(ls), 1), col |-> 12]
                               ELSE [line |-> 1, col |-> 1]]
       /\ tmp_dir = ScratchDir(parent)
       /\ window_id = wid
       /\ max_chunk_size = cap
  /\ out_pc = "write_text"
  /\ text_file = None
  /\ ranges_file = <<>>
  /\ init_file = None
  /\ chunk = ""
  /\ chunk_has_entries = FALSE
  /\ span_at = <<0, 0>>
  /\ palette = DEFAULT_PALETTE
  /\ TerminalIdle
  /\ ResolutionIdle
  /\ RunIdle
  /\ NormalizeIdle

\* output::write_text(&text_path, screen)
WriteText ==
  /\ out_pc = "write_text"
  /\ text_file' = Some(write_text(screen))
  /\ out_pc' = "write_ranges"
  /\ UNCHANGED <<screen, window_id, tmp_dir, max_chunk_size, ranges_file,
                 init_file, chunk, chunk_has_entries, span_at>>
  /\ UNCHANGED beyondOutput

\* write_ranges up to the loops: the file created, the first command begun
BeginRanges ==
  /\ out_pc = "write_ranges"
  /\ ranges_file' = <<>>
  /\ chunk' = FirstCommand
  /\ chunk_has_entries' = FALSE
  /\ span_at' = <<0, 0>>
  /\ out_pc' = "spans"
  /\ UNCHANGED <<screen, window_id, tmp_dir, max_chunk_size, text_file, init_file>>
  /\ UNCHANGED beyondOutput

\* one iteration of `for span in &line.spans`, lines without spans passed over
WriteEntry ==
  /\ out_pc = "spans"
  /\ IsSome(SpanFrom(screen.lines, span_at[1], span_at[2]))
  /\ LET here == Unwrap(SpanFrom(screen.lines, span_at[1], span_at[2]))
         i == here[1]
         span == screen.lines[i + 1].spans[here[2] + 1]
         line_num == i + 1
         res == PushEntry(ranges_file, chunk, chunk_has_entries,
                          FormatEntry(line_num, span), max_chunk_size)
     IN /\ ranges_file' = res.file
        /\ chunk' = res.chunk
        /\ span_at' = <<i, here[2] + 1>>
  /\ chunk_has_entries' = TRUE
  /\ UNCHANGED <<screen, window_id, tmp_dir, max_chunk_size, out_pc, text_file,
                 init_file>>
  /\ UNCHANGED beyondOutput

\* the end of write_ranges: the last command written if it has entries
EndRanges ==
  /\ out_pc = "spans"
  /\ ~IsSome(SpanFrom(screen.lines, span_at[1], span_at[2]))
  /\ ranges_file' = IF chunk_has_entries THEN Append(ranges_file, chunk)
                    ELSE ranges_file
  /\ out_pc' = "write_init_kak"
  /\ UNCHANGED <<screen, window_id, tmp_dir, max_chunk_size, text_file, init_file,
                 chunk, chunk_has_entries, span_at>>
  /\ UNCHANGED beyondOutput

\* output::write_init_kak(&init_path, screen, target, tmp_dir.path(), &ranges_path)
WriteInitKak ==
  /\ out_pc = "write_init_kak"
  /\ init_file' = Some(write_init_kak(screen, window_id, tmp_dir, RangesPath(tmp_dir)))
  /\ out_pc' = "done"
  /\ UNCHANGED <<screen, window_id, tmp_dir, max_chunk_size, text_file, ranges_file,
                 chunk, chunk_has_entries, span_at>>
  /\ UNCHANGED beyondOutput

NextOutput ==
  \/ WriteText
  \/ BeginRanges
  \/ WriteEntry
  \/ EndRanges
  \/ WriteInitKak

SpecOutput == InitOutput /\ [][NextOutput]_allVars

\* ------------------------------------------------------------------ C13
\* the words of s: what lies between its spaces and its two ends
Words(s) ==
  LET cuts == {i \in 1..Len(s) : SubSeq(s, i, i) = " "} \cup {0, Len(s) + 1}
      Cut(k) == CHOOSE p \in cuts : Cardinality({q \in cuts : q < p}) = k - 1
  IN [k \in 1..(Cardinality(cuts) - 1) |-> SubSeq(s, Cut(k) + 1, Cut(k + 1) - 1)]

\* the entries of a command: what follows the four words of its head
CommandEntries(cmd) ==
  LET w == Words(cmd) IN SubSeq(w, 5, Len(w))

RECURSIVE AllEntries(_)
AllEntries(cmds) ==
  IF cmds = <<>> THEN <<>>
  ELSE CommandEntries(Head(cmds)) \o AllEntries(Tail(cmds))

\* the spans of the lines i.. in (line, span) order, each with its line number
RECURSIVE SpansInOrder(_, _)
SpansInOrder(ls, i) ==
  IF i > Len(ls) THEN <<>>
  ELSE [j \in 1..Len(ls[i].spans) |-> <<i, ls[i].spans[j]>>] \o SpansInOrder(ls, i + 1)

\* '<line>.<start_byte>,<line>.<end_byte - 1>|<face>'
EntryText(p) ==
  "'" \o ToString(p[1]) \o "." \o ToString(p[2].start_byte) \o ","
  \o ToString(p[1]) \o "." \o ToString(p[2].end_byte - 1) \o "|" \o p[2].face \o "'"

\* C13: the entries of the commands written by write_ranges, read in order
\* across the commands, are the entries of the screen's spans in (line, span)
\* order, one per span, each '<line>.<start_byte>,<line>.<end_byte - 1>|<face>'
\* with the 1-based line number; while the loops run the written commands and
\* the command being built hold the entries of the spans passed so far; a
\* screen without spans leaves the script empty.
C13_OneEntryPerSpan ==
  LET expected == SpansInOrder(screen.lines, 1)
  IN /\ out_pc = "spans" =>
          LET sofar == AllEntries(Append(ranges_file, chunk))
          IN /\ Len(sofar) <= Len(expected)
             /\ \A k \in 1..Len(sofar) : sofar[k] = EntryText(expected[k])
     /\ out_pc \in {"write_init_kak", "done"} =>
          LET entries == AllEntries(ranges_file)
          IN /\ Len(entries) = Len(expected)
             /\ \A k \in 1..Len(entries) : entries[k] = EntryText(expected[k])
             /\ expected = <<>> => ranges_file = <<>>

\* three spans on two lines, written as three commands
C13_Witness ==
  /\ out_pc = "done"
  /\ screen.lines = <<LineTwoSpans, LinePlain, LineRed>>
  /\ max_chunk_size = SmallChunk
  /\ ranges_file =
       <<FirstCommand \o " '1.1,1.5|default,rgb:00CC00+b'",
         AddCommand \o " '1.7,1.11|rgb:CC0000,rgb:0000CC+bdiur'",
         AddCommand \o " '3.1,3.1|rgb:CC0000,default'">>

\* ------------------------------------------------------------------ C14
\* C14: of the commands written to ranges.kak the first, and only the first,
\* is the set-option binding %val{timestamp}; every later one is set-option
\* -add; every command has at least one entry; a command longer than the cap
\* has exactly one entry.
C14_ChunkedCommands ==
  \A k \in 1..Len(ranges_file) :
    LET cmd == ranges_file[k]
        w == Words(cmd)
    IN /\ Len(w) >= 5
       /\ SubSeq(w, 1, 4) =
            IF k = 1
            THEN <<"set-option", "buffer", "scrollback_colors", "%val{timestamp}">>
            ELSE <<"set-option", "-add", "buffer", "scrollback_colors">>
       /\ Len(cmd) > max_chunk_size => Len(w) = 5

\* three spans under a cap that holds two entries after the additive head
C14_Witness ==
  /\ out_pc = "done"
  /\ max_chunk_size = SmallChunk
  /\ ranges_file =
       <<FirstCommand \o " '1.1,1.1|rgb:CC0000,default'",
         AddCommand \o " '2.1,2.1|rgb:CC0000,default' '3.1,3.1|rgb:CC0000,default'">>

\* ------------------------------------------------------------------ C15
\* each line's text followed by one line feed
RECURSIVE TerminatedLines(_)
TerminatedLines(ls) ==
  IF ls = <<>> THEN <<>>
  ELSE Head(ls).text \o <<10>> \o TerminatedLines(Tail(ls))

\* C15: text.txt is the concatenation of each line's text followed by one
\* line feed, so a screen of n lines whose texts hold no line feed gives n line
\* feeds; the empty screen gives the empty file and one empty line gives "\n".
C15_TextLines ==
  IsSome(text_file) =>
    LET f == Unwrap(text_file)
    IN /\ f = TerminatedLines(screen.lines)
       /\ Cardinality({k \in 1..Len(f) : f[k] = 10}) = Len(screen.lines)
       /\ screen.lines = <<>> => f = <<>>
       /\ screen.lines = <<LineEmpty>> => f = <<10>>

\* an empty line between two lines of text
C15_Witness ==
  /\ screen.lines = <<LineRed, LineEmpty, LinePlain>>
  /\ text_file = Some(<<97, 98, 10, 10, 97, 10>>)

\* ------------------------------------------------------------------ C16
HasLine(f, l) == \E k \in 1..Len(f) : f[k] = l

\* select <line>.<col>,<line>.<col>
SelectLine(l, c) ==
  "select " \o ToString(l) \o "." \o ToString(c) \o ","
  \o ToString(l) \o "." \o ToString(c)

\* C16: init.kak selects the cursor's <line>.<col>, selects column 1 of the
\* viewport's top line scrollback_total + 1 (some line counted from a total
\* the screen allows) with `execute-keys vt`, and has no `execute-keys vb`.
C16_ViewportTop ==
  IsSome(init_file) =>
    LET f == Unwrap(init_file)
    IN /\ HasLine(f, SelectLine(screen.cursor.line, screen.cursor.col))
       /\ \E scrollback_total \in 0..Len(screen.lines) :
            HasLine(f, SelectLine(scrollback_total + 1, 1))
       /\ HasLine(f, "execute-keys vt")
       /\ ~HasLine(f, "execute-keys vb")

\* ------------------------------------------------------------------ C17
StartsWith(s, prefix) ==
  Len(s) >= Len(prefix) /\ SubSeq(s, 1, Len(prefix)) = prefix

\* the lines of f that start with prefix
LinesWith(f, prefix) == {k \in 1..Len(f) : StartsWith(f[k], prefix)}

\* the one line of f that starts with prefix, 0 unless there is exactly one
TheLine(f, prefix) ==
  IF Cardinality(LinesWith(f, prefix)) = 1
  THEN CHOOSE k \in LinesWith(f, prefix) : TRUE
  ELSE 0

\* C17: init.kak has, each once and in this order, the global window-id
\* option, the buffer's readonly and scratch-directory options, the hidden
\* range-specs declaration, the highlighter, the `source` of the ranges
\* script, the update-option, the cursor selection, the viewport directive,
\* and last the ClientClose hook, whose removal is guarded by a client list
\* of at most one word and whose block closes the script.
C17_InitScriptOrder ==
  IsSome(init_file) =>
    LET f == Unwrap(init_file)
        wid == TheLine(f, "set-option global scrollback_kitty_window_id '")
        readonly == TheLine(f, "set-option buffer readonly true")
        dir == TheLine(f, "set-option buffer scrollback_tmp_dir '")
        declare == TheLine(f, "declare-option -hidden range-specs scrollback_colors")
        highlighter == TheLine(f, "add-highlighter buffer/ ranges scrollback_colors")
        src == TheLine(f, "source '")
        update == TheLine(f, "update-option buffer scrollback_colors")
        select == TheLine(f, "select ")
        viewport == TheLine(f, "execute-keys v")
        hook == TheLine(f, "hook -always global ClientClose ")
        guard == TheLine(f, "        if [ -d '")
        remove == TheLine(f, "            rm -rf -- '")
    IN /\ 0 < wid /\ wid < readonly /\ readonly < dir /\ dir < declare
       /\ declare < highlighter /\ highlighter < src /\ src < update
       /\ update < select /\ select < viewport /\ viewport < hook
       /\ hook < guard /\ guard < remove
       /\ f[wid] = "set-option global scrollback_kitty_window_id '"
                     \o ToString(window_id) \o "'"
       /\ f[select] = SelectLine(screen.cursor.line, screen.cursor.col)
       /\ LET tail == " ] && [ \"$(printf '%s' \"$kak_client_list\" | wc -w)\" -le 1 ]; then"
          IN SubSeq(f[guard], Len(f[guard]) - Len(tail) + 1, Len(f[guard])) = tail
       /\ f[Len(f)] = "}"
       /\ \A k \in hook..Len(f) : f[k] # ""

\* the script of a three-line screen with the cursor on its last line
C17_Witness ==
  /\ out_pc = "done"
  /\ window_id = 42
  /\ Len(screen.lines) = 3
  /\ Len(Unwrap(init_file)) = 22
  /\ Unwrap(init_file)[1] = "set-option global scrollback_kitty_window_id '42'"
  /\ Unwrap(init_file)[8] = "source '/a/ksb-1/ranges.kak'"
  /\ Unwrap(init_file)[11] = "select 3.12,3.12"
  /\ Unwrap(init_file)[16] = "hook -always global ClientClose .* %{"

\* ------------------------------------------------------------------ C18
\* Reading the editor's single-quoted string from position i of lit, inside
\* the quotes: '' stands for a quote, a lone quote closes the string.
RECURSIVE KakQuoted(_, _, _)
KakQuoted(lit, i, acc) ==
  IF i > Len(lit) THEN [closed |-> FALSE, value |-> acc, end |-> i]
  ELSE IF SubSeq(lit, i, i) = "'"
    THEN IF i < Len(lit) /\ SubSeq(lit, i + 1, i + 1) = "'"
         THEN KakQuoted(lit, i + 2, acc \o "'")
         ELSE [closed |-> TRUE, value |-> acc, end |-> i]
    ELSE KakQuoted(lit, i + 1, acc \o SubSeq(lit, i, i))

\* lit read as one single-quoted string of the editor that ends with lit
KakLiteralIs(lit, s) ==
  /\ StartsWith(lit, "'")
  /\ LET r == KakQuoted(lit, 2, "")
     IN r.closed /\ r.end = Len(lit) /\ r.value = s

\* Reading a POSIX shell word from position i of s: inside single quotes every
\* character stands for itself up to the closing quote; outside, a backslash
\* quotes the next character and a space ends the word.
RECURSIVE ShellWord(_, _, _, _)
ShellWord(s, i, quoted, acc) ==
  IF i > Len(s) THEN [ok |-> ~quoted, value |-> acc, end |-> i]
  ELSE LET ch == SubSeq(s, i, i)
       IN IF quoted
          THEN IF ch = "'" THEN ShellWord(s, i + 1, FALSE, acc)
               ELSE ShellWord(s, i + 1, TRUE, acc \o ch)
          ELSE IF ch = "'" THEN ShellWord(s, i + 1, TRUE, acc)
          ELSE IF ch = "\\"
            THEN IF i < Len(s)
                 THEN ShellWord(s, i + 2, FALSE, acc \o SubSeq(s, i + 1, i + 1))
                 ELSE [ok |-> FALSE, value |-> acc, end |-> i]
          ELSE IF ch = " " THEN [ok |-> TRUE, value |-> acc, end |-> i]
          ELSE ShellWord(s, i + 1, FALSE, acc \o ch)

Quotes(s) == Cardinality({k \in 1..Len(s) : SubSeq(s, k, k) = "'"})

AfterPrefix(l, prefix) == SubSeq(l, Len(prefix) + 1, Len(l))

\* C18: in init.kak the scratch directory and the ranges path stand in
\* single-quoted strings of the editor that read back as the path itself and
\* close only at their end, each quote of the path having become two; inside
\* %sh the scratch directory stands in single-quoted shell words that read
\* back as the path and end only where the code ends them, each quote having
\* become the four characters '\''; nothing else is changed (the lengths grow
\* by one and by three per quote); the removal is `rm -rf -- '<dir>'`.
C18_QuoteEscaping ==
  IsSome(init_file) =>
    LET f == Unwrap(init_file)
        dir == AfterPrefix(f[TheLine(f, "set-option buffer scrollback_tmp_dir ")],
                           "set-option buffer scrollback_tmp_dir ")
        src == AfterPrefix(f[TheLine(f, "source ")], "source ")
        remove == AfterPrefix(f[TheLine(f, "            rm -rf -- ")],
                              "            rm -rf -- ")
        guard == AfterPrefix(f[TheLine(f, "        if [ -d ")], "        if [ -d ")
        removed == ShellWord(remove, 1, FALSE, "")
        guarded == ShellWord(guard, 1, FALSE, "")
    IN /\ KakLiteralIs(dir, tmp_dir)
       /\ Len(dir) = Len(tmp_dir) + Quotes(tmp_dir) + 2
       /\ KakLiteralIs(src, RangesPath(tmp_dir))
       /\ removed.ok /\ removed.value = tmp_dir /\ removed.end = Len(remove) + 1
       /\ Len(remove) = Len(tmp_dir) + 3 * Quotes(tmp_dir) + 2
       /\ StartsWith(remove, "'")
       /\ guarded.ok /\ guarded.value = tmp_dir
       /\ StartsWith(AfterPrefix(guard, SubSeq(guard, 1, guarded.end - 1)), " ] && [ ")

\* a scratch directory under a directory named \'a
C18_Witness ==
  /\ out_pc = "done"
  /\ tmp_dir = "/\\'a/ksb-1"
  /\ Unwrap(init_file)[4] = "set-option buffer scrollback_tmp_dir '/\\''a/ksb-1'"
  /\ Unwrap(init_file)[19] = "            rm -rf -- '/\\'\\''a/ksb-1'"

\* ================================================================== tmux
\* normalize_capture (src/tmux.rs) on the bytes of a tmux capture, one loop
\* iteration at a time, called a second time on its own result.
MaxCapture == 5     \* most bytes of a capture

CR == 13
LF == 10

\* data[i] of a Rust Vec<u8> (0-based)
ByteAt(d, i) == d[i + 1]

\* bare_lf_count counting every LF.
bare_lf_count_EveryLf(d) ==
  Cardinality({i \in 0..(Len(d) - 1) : ByteAt(d, i) = LF})

\* let bare_lf_count
bare_lf_count(d) ==
  Cardinality({i \in 0..(Len(d) - 1) :
                 ByteAt(d, i) = LF /\ (i = 0 \/ ByteAt(d, i - 1) # CR)})

\* BareLfAt without the test for the first byte.
BareLfAt_NotFirst(d, i) ==
  ByteAt(d, i) = LF /\ i > 0 /\ ByteAt(d, i - 1) # CR

\* the condition of the loop body: data[r] == b'\n' && (r == 0 || data[r - 1] != b'\r')
BareLfAt(d, i) ==
  ByteAt(d, i) = LF /\ (i = 0 \/ ByteAt(d, i - 1) # CR)

CaptureBytes == {CR, LF, 97}

Captures == UNION {SeqsOf(CaptureBytes, n) : n \in 0..MaxCapture}

InitNormalize ==
  /\ stdin_data \in Captures
  /\ data = stdin_data
  /\ norm_r = 0
  /\ norm_w = 0
  /\ norm_pc = "entry"
  /\ calls = 1
  /\ first_result = <<>>
  /\ palette = DEFAULT_PALETTE
  /\ TerminalIdle
  /\ ResolutionIdle
  /\ RunIdle
  /\ OutputIdle

\* from the count to the loop: the early return, or the resize
CountAndResize ==
  /\ norm_pc = "entry"
  /\ LET count == bare_lf_count(data)
         old_len == Len(data)
         new_len == old_len + count
     IN IF count = 0
        THEN /\ norm_pc' = "returned"
             /\ UNCHANGED <<data, norm_r, norm_w>>
        ELSE /\ data' = data \o [k \in 1..count |-> 0]
             /\ norm_w' = new_len
             /\ norm_r' = old_len
             /\ norm_pc' = "copy"
  /\ UNCHANGED <<stdin_data, calls, first_result>>
  /\ UNCHANGED beyondNormalize

\* one iteration of `while r > 0`
CopyByte ==
  /\ norm_pc = "copy"
  /\ norm_r > 0
  /\ LET r1 == norm_r - 1
         w1 == norm_w - 1
         copied == [data EXCEPT ![w1 + 1] = ByteAt(data, r1)]
     IN IF BareLfAt(copied, r1)
        THEN /\ data' = [copied EXCEPT ![w1] = CR]
             /\ norm_w' = w1 - 1
             /\ norm_r' = r1
        ELSE /\ data' = copied
             /\ norm_w' = w1
             /\ norm_r' = r1
  /\ UNCHANGED <<stdin_data, norm_pc, calls, first_result>>
  /\ UNCHANGED beyondNormalize

\* the loop left at r = 0
EndCopy ==
  /\ norm_pc = "copy"
  /\ norm_r = 0
  /\ norm_pc' = "returned"
  /\ UNCHANGED <<stdin_data, data, norm_r, norm_w, calls, first_result>>
  /\ UNCHANGED beyondNormalize

\* normalize_capture called on the buffer it has normalized
CallAgain ==
  /\ norm_pc = "returned"
  /\ calls = 1
  /\ first_result' = data
  /\ calls' = 2
  /\ norm_r' = 0
  /\ norm_w' = 0
  /\ norm_pc' = "entry"
  /\ UNCHANGED <<stdin_data, data>>
  /\ UNCHANGED beyondNormalize

NextNormalize ==
  \/ CountAndResize
  \/ CopyByte
  \/ EndCopy
  \/ CallAgain

SpecNormalize == InitNormalize /\ [][NextNormalize]_allVars

\* ------------------------------------------------------------------ C19
\* the buffer the running call of normalize_capture was given
CallInput == IF calls = 1 THEN stdin_data ELSE first_result

\* no LF at the first position or after a byte other than CR
NoBareLf(d) ==
  \A i \in 1..Len(d) : d[i] = LF => (i > 1 /\ d[i - 1] = CR)

\* C19: when normalize_capture returns, the buffer has no LF that is not
\* immediately preceded by CR, and the second call returns the buffer the
\* first call left.
C19_Idempotent ==
  norm_pc = "returned" =>
    /\ NoBareLf(data)
    /\ calls = 2 => data = first_result

\* a capture with a leading LF, a CR LF and a bare LF, normalized twice
C19_Witness ==
  /\ norm_pc = "returned"
  /\ calls = 2
  /\ stdin_data = <<10, 97, 13, 10, 10>>
  /\ data = <<13, 10, 97, 13, 10, 13, 10>>

\* ------------------------------------------------------------------ C20
\* the positions of x holding an LF that is first or follows a byte other than CR
BareLfPositions(x) ==
  {i \in 1..Len(x) : x[i] = LF /\ (i = 1 \/ x[i - 1] # CR)}

\* x with a CR put before each of these LFs, from position i on
RECURSIVE Expanded(_, _)
Expanded(x, i) ==
  IF i > Len(x) THEN <<>>
  ELSE (IF i \in BareLfPositions(x) THEN <<CR, x[i]>> ELSE <<x[i]>>)
       \o Expanded(x, i + 1)

\* C20: normalize_capture returns its input with one CR put before each LF
\* that is first or not preceded by CR and every other byte kept in order, so
\* the length grows by the number of these LFs and a buffer without one is
\* returned as it was; in the backward copy the write index is never below
\* the read index, and both are 0 when the loop ends.
C20_NormalizedResult ==
  /\ norm_pc = "returned" =>
       /\ data = Expanded(CallInput, 1)
       /\ Len(data) = Len(CallInput) + Cardinality(BareLfPositions(CallInput))
       /\ BareLfPositions(CallInput) = {} => data = CallInput
       /\ norm_r = 0
       /\ norm_w = 0
  /\ norm_pc = "copy" =>
       /\ 0 <= norm_r
       /\ norm_r <= norm_w
       /\ SubSeq(data, 1, norm_r) = SubSeq(CallInput, 1, norm_r)

\* two bare LFs, a CR LF and a letter
C20_Witness ==
  /\ norm_pc = "returned"
  /\ calls = 1
  /\ stdin_data = <<10, 10, 13, 10, 97>>
  /\ data = <<13, 10, 13, 10, 13, 10, 97>>

\* ================================================================== parsing
\* The parsers of the text the host terminal hands over: the palette-query
\* response, KITTY_PIPE_DATA and the window id.  A &str is its UTF-8 bytes.

\* the UTF-8 bytes of a string literal of the source, looked up in runs of
\* ASCII characters in code order, each with the code of its first
Utf8(s) ==
  LET AsciiRuns ==
        <<[first |-> 32, chars |-> " "],
          [first |-> 35, chars |-> "#$"],
          [first |-> 39, chars |-> "'"],
          [first |-> 43, chars |-> "+,-"],
          [first |-> 48, chars |-> "0123456789:"],
          [first |-> 64, chars |-> "@ABCDEFGHIJKLMNOPQRSTUVWXYZ"],
          [first |-> 95, chars |-> "_"],
          [first |-> 97, chars |-> "abcdefghijklmnopqrstuvwxyz"]>>
      AsciiCode(c) ==
        LET r == CHOOSE r \in 1..Len(AsciiRuns) :
                   \E k \in 1..Len(AsciiRuns[r].chars) :
                     SubSeq(AsciiRuns[r].chars, k, k) = c
            k == CHOOSE k \in 1..Len(AsciiRuns[r].chars) :
                   SubSeq(AsciiRuns[r].chars, k, k) = c
        IN AsciiRuns[r].first + k - 1
  IN [i \in 1..Len(s) |-> AsciiCode(SubSeq(s, i, i))]

\* s.starts_with(prefix)
StartsWithBytes(s, prefix) ==
  /\ Len(prefix) <= Len(s)
  /\ SubSeq(s, 1, Len(prefix)) = prefix

\* s.trim_start().len() counted from the end: the bytes that stay
RECURSIVE TrimStart(_)
TrimStart(s) ==
  IF \E w \in WhiteSpace : StartsWithBytes(s, w)
  THEN LET w == CHOOSE w \in WhiteSpace : StartsWithBytes(s, w)
       IN TrimStart(SubSeq(s, Len(w) + 1, Len(s)))
  ELSE s

\* str::trim: White_Space characters removed at both ends
trim(s) == LET t == TrimStart(s) IN SubSeq(t, 1, TrimEndLen(t))

\* str::lines: the pieces between line feeds, each without one carriage
\* return before its line feed; no piece after a final line feed
StrLines(s) ==
  LET nl == {i \in 1..Len(s) : s[i] = 10}
      ends == nl \cup (IF Len(s) > 0 /\ s[Len(s)] # 10 THEN {Len(s) + 1} ELSE {})
      End(k) == CHOOSE p \in ends : Cardinality({q \in ends : q < p}) = k - 1
      Start(k) == IF k = 1 THEN 1 ELSE End(k - 1) + 1
      Piece(k) ==
        LET e == End(k)
            cr == e \in nl /\ e - 1 >= Start(k) /\ s[e - 1] = 13
        IN SubSeq(s, Start(k), IF cr THEN e - 2 ELSE e - 1)
  IN [k \in 1..Cardinality(ends) |-> Piece(k)]

\* char::is_ascii_whitespace
IsAsciiWhitespace == {9, 10, 12, 13, 32}

\* s.split_once(pat): Some((before, after)) around the first byte that
\* matches; pat is the set of the bytes that match
split_once(s, pat) ==
  IF \E i \in 1..Len(s) : s[i] \in pat
  THEN LET i == CHOOSE i \in 1..Len(s) :
                  s[i] \in pat /\ \A j \in 1..(i - 1) : s[j] \notin pat
       IN Some(<<SubSeq(s, 1, i - 1), SubSeq(s, i + 1, Len(s))>>)
  ELSE None

\* to_digit that knows the lower-case letters only.
to_digit_LowerOnly(b, radix) ==
  LET d == IF b \in 48..57 THEN b - 48
           ELSE IF b \in 97..122 THEN b - 97 + 10
           ELSE radix
  IN IF d < radix THEN Some(d) ELSE None

\* char::to_digit(radix) of an ASCII byte: None when it is no digit
to_digit(b, radix) ==
  LET d == IF b \in 48..57 THEN b - 48
           ELSE IF b \in 97..122 THEN b - 97 + 10
           ELSE IF b \in 65..90 THEN b - 65 + 10
           ELSE radix
  IN IF d < radix THEN Some(d) ELSE None

\* the digits of from_str_radix folded from the left with checked arithmetic:
\* Err as soon as acc * radix + digit would pass the type's MAX
RECURSIVE FoldDigits(_, _, _, _)
FoldDigits(digits, radix, max, acc) ==
  IF digits = <<>> THEN Some(acc)
  ELSE LET d == to_digit(Head(digits), radix)
       IN IF ~IsSome(d) THEN None
          ELSE IF acc > (max - Unwrap(d)) \div radix THEN None
          ELSE FoldDigits(Tail(digits), radix, max, acc * radix + Unwrap(d))

\* <unsigned>::from_str_radix(src, radix) for a type with the given MAX: an
\* optional `+`, then at least one digit; None for Err
from_str_radix(src, radix, max) ==
  IF src = <<>> THEN None
  ELSE IF Len(src) = 1 /\ src[1] \in {43, 45} THEN None
  ELSE FoldDigits(IF src[1] = 43 THEN Tail(src) ELSE src, radix, max, 0)

\* str::is_char_boundary(index), index counted in bytes from 0
is_char_boundary(s, index) ==
  \/ index = 0
  \/ index = Len(s)
  \/ index < Len(s) /\ (s[index + 1] < 128 \/ s[index + 1] >= 192)

\* &s[from..to]: panics unless both ends are character boundaries
Slice(s, from, to) ==
  IF is_char_boundary(s, from) /\ is_char_boundary(s, to)
  THEN [panicked |-> FALSE, str |-> SubSeq(s, from + 1, to)]
  ELSE [panicked |-> TRUE, str |-> <<>>]

\* s.trim_start_matches('#')
RECURSIVE trim_start_matches(_, _)
trim_start_matches(s, b) ==
  IF s # <<>> /\ s[1] = b THEN trim_start_matches(Tail(s), b) ELSE s

\* the literal of line.strip_prefix("color")
ColorPrefix == Utf8("color")

\* the three channels of a hex body cut at the given width, left to right:
\* "panic" when a slice panics, "skip" at the first channel that does not
\* parse, else "ok" with the parsed channels
RECURSIVE HexChannels(_, _, _, _)
HexChannels(hex_str, width, k, acc) ==
  IF k = 3 THEN [kind |-> "ok", rgb |-> acc]
  ELSE LET sl == Slice(hex_str, k * width, (k + 1) * width)
       IN IF sl.panicked THEN [kind |-> "panic", rgb |-> acc]
          ELSE LET v == from_str_radix(sl.str, 16, U8_MAX)
               IN IF ~IsSome(v) THEN [kind |-> "skip", rgb |-> acc]
                  ELSE HexChannels(hex_str, width, k + 1, Append(acc, Unwrap(v)))

\* one iteration of `for line in output.lines()`: the palette after the line,
\* or the panic of a slice
ParseColorLine(pal, raw) ==
  LET line == trim(raw)
      Skip == [panicked |-> FALSE, palette |-> pal]
  IN IF ~StartsWithBytes(line, ColorPrefix) THEN Skip
     ELSE LET rest == SubSeq(line, Len(ColorPrefix) + 1, Len(line))
              parts == split_once(rest, IsAsciiWhitespace)
          IN IF ~IsSome(parts) THEN Skip
             ELSE LET idx == from_str_radix(Unwrap(parts)[1], 10, U8_MAX)
                  IN IF ~IsSome(idx) THEN Skip
                     ELSE IF Unwrap(idx) > 15 THEN Skip
                     ELSE LET hex_str == trim_start_matches(trim(Unwrap(parts)[2]), 35)
                              ch == IF Len(hex_str) = 6 THEN HexChannels(hex_str, 2, 0, <<>>)
                                    ELSE IF Len(hex_str) = 3
                                      THEN HexChannels(hex_str, 1, 0, <<>>)
                                    ELSE [kind |-> "skip", rgb |-> <<>>]
                              rgb == IF Len(hex_str) = 3
                                     THEN [i \in 1..3 |-> (ch.rgb[i] * 17) % 256]
                                     ELSE ch.rgb
                              base == Unwrap(idx) * 3
                          IN IF ch.kind = "panic"
                               THEN [panicked |-> TRUE, palette |-> pal]
                             ELSE IF ch.kind = "skip" THEN Skip
                             ELSE [panicked |-> FALSE,
                                   palette |-> [i \in 1..48 |->
                                     IF i \in (base + 1)..(base + 3)
                                     THEN rgb[i - base] ELSE pal[i]]]

\* the loop of parse_kitty_colors from line k on
RECURSIVE ParseColorLines(_, _, _)
ParseColorLines(pal, ls, k) ==
  IF k > Len(ls) THEN [panicked |-> FALSE, palette |-> pal]
  ELSE LET res == ParseColorLine(pal, ls[k])
       IN IF res.panicked THEN res
          ELSE ParseColorLines(res.palette, ls, k + 1)

\* parse_kitty_colors(output): the palette returned, or panicked
parse_kitty_colors(output) == ParseColorLines(DEFAULT_PALETTE, StrLines(output), 1)

\* ------------------------------------------------------------------ palette-query responses
MaxColorLines == 2  \* most lines of a response put together line by line

\* the lines `color<N> #<RRGGBB>` of the slots in `order` of palette p, one
\* after the other, each with its line feed, in upper or lower case
RECURSIVE Serialize(_, _, _)
Serialize(p, order, upper) ==
  IF order = <<>> THEN <<>>
  ELSE LET n == Head(order)
           Decimal(v) == IF v < 10 THEN <<48 + v>> ELSE <<48 + (v \div 10), 48 + (v % 10)>>
           Nibble(v) == IF v < 10 THEN 48 + v ELSE IF upper THEN 55 + v ELSE 87 + v
           Hex(v) == <<Nibble(v \div 16), Nibble(v % 16)>>
       IN ColorPrefix \o Decimal(n) \o <<32, 35>>
          \o Hex(p[3 * n + 1]) \o Hex(p[3 * n + 2]) \o Hex(p[3 * n + 3]) \o <<10>>
          \o Serialize(p, Tail(order), upper)

\* the slots a response names, in the order of its lines
SlotOrders ==
  {[i \in 1..16 |-> i - 1], [i \in 1..16 |-> 16 - i], [i \in 1..8 |-> 2 * i - 1],
   <<15, 0>>, <<>>}
  \cup {<<n>> : n \in 0..15}

\* the responses that serialize a palette a terminal can report, or some
\* slots of it
SerializedResponses ==
  LET ReportedPalettes ==
        {DEFAULT_PALETTE, ThemePalette, [i \in 1..48 |-> 0],
         [i \in 1..48 |-> U8_MAX], [i \in 1..48 |-> (i * 37) % 256]}
  IN {Serialize(p, order, upper) :
        p \in ReportedPalettes, order \in SlotOrders, upper \in BOOLEAN}

\* one line put together from a key, an index, a separator, a marker and a
\* body; the bodies hold U+00E9 and U+FFFD, the replacement character of
\* from_utf8_lossy
PartLines ==
  LET EAcute == <<195, 169>>
      Replacement == <<239, 191, 189>>
      KeyParts == {Utf8("color"), Utf8("colour"), Utf8(" color"), Utf8("background"), <<>>}
      IndexParts ==
        {Utf8("0"), Utf8("7"), Utf8("15"), Utf8("16"), Utf8("007"), Utf8("+5"),
         Utf8("-1"), Utf8("255"), Utf8("256"), Utf8("x"), <<>>}
      SeparatorParts == {<<32>>, <<32, 32>>, <<9>>, <<194, 160>>, <<>>}
      MarkerParts == {Utf8("#"), Utf8("##"), <<>>}
      BodyParts ==
        {Utf8("1a2B3c"), Utf8("f0A"), Utf8("12345"), Utf8("1234567"), Utf8("12"),
         Utf8("12345g"), Utf8("g00"), Utf8("+1+2+3"), Utf8("+12"), Utf8("fff "),
         Utf8("fff x"), <<>>,
         EAcute \o Utf8("1234"), Utf8("1") \o EAcute \o Utf8("234"),
         Utf8("123") \o EAcute \o Utf8("5"), Utf8("abc") \o Replacement,
         EAcute \o Utf8("1"), Utf8("1") \o EAcute}
  IN {k \o n \o s \o m \o b :
        k \in KeyParts, n \in IndexParts, s \in SeparatorParts, m \in MarkerParts,
        b \in BodyParts}

\* responses of up to MaxColorLines lines, ended by LF or CR LF, the last
\* one perhaps not ended
LineResponses ==
  LET ResponseLines ==
        {Utf8("color1 #102030"), Utf8("color1 #abc"), Utf8("color15  #FFFFFE"),
         Utf8("background #1a1b26"), Utf8("color16 #112233"), <<>>}
  IN UNION {{IF n = 0 THEN <<>>
             ELSE LET Ended(i) == ls[i] \o (IF i = n /\ open THEN <<>> ELSE eol)
                      Join[i \in 0..n] ==
                        IF i = 0 THEN <<>> ELSE Join[i - 1] \o Ended(i)
                  IN Join[n] :
               ls \in SeqsOf(ResponseLines, n), eol \in {<<10>>, <<13, 10>>},
               open \in BOOLEAN} : n \in 0..MaxColorLines}

ColorResponses == SerializedResponses \cup PartLines \cup LineResponses

\* ------------------------------------------------------------------ calls of the parsers
InitParse ==
  /\ palette = DEFAULT_PALETTE
  /\ TerminalIdle
  /\ ResolutionIdle
  /\ RunIdle
  /\ OutputIdle
  /\ NormalizeIdle

\* palette::parse_kitty_colors(&text)
CallParseKittyColors ==
  /\ resolution = NoCall
  /\ \E output \in ColorResponses :
       resolution' = [call |-> "parse_kitty_colors", arg |-> output,
                      ret |-> parse_kitty_colors(output)]
  /\ UNCHANGED beyondResolution

\* ------------------------------------------------------------------ KITTY_PIPE_DATA
U16_MAX == 65535

\* part.contains(ch)
contains(part, ch) == \E i \in 1..Len(part) : part[i] = ch

\* Err(anyhow!(fmt, args)): the format string and what fills its braces
Err(fmt, args) == [ok |-> FALSE, fmt |-> fmt, args |-> args]

\* ValidatePipeData holding the 1-based cursor below the size, as a 0-based one.
ValidatePipeData_ZeroBasedBound(cursor_x_1, cursor_y_1, lines_n, columns_n) ==
  IF lines_n = 0 THEN Err("KITTY_PIPE_DATA: lines must be at least 1", <<>>)
  ELSE IF columns_n = 0 THEN Err("KITTY_PIPE_DATA: columns must be at least 1", <<>>)
  ELSE IF cursor_x_1 = 0
    THEN Err("KITTY_PIPE_DATA: cursor_x must be at least 1 (1-based)", <<>>)
  ELSE IF cursor_y_1 = 0
    THEN Err("KITTY_PIPE_DATA: cursor_y must be at least 1 (1-based)", <<>>)
  ELSE IF cursor_x_1 >= columns_n
    THEN Err("KITTY_PIPE_DATA: cursor_x ({}) must be at most columns ({})",
             <<cursor_x_1, columns_n>>)
  ELSE IF cursor_y_1 >= lines_n
    THEN Err("KITTY_PIPE_DATA: cursor_y ({}) must be at most lines ({})",
             <<cursor_y_1, lines_n>>)
  ELSE [ok |-> TRUE,
        data |-> [cursor_x |-> cursor_x_1 - 1, cursor_y |-> cursor_y_1 - 1,
                  lines |-> lines_n, columns |-> columns_n]]

\* ValidatePipeData with the message of a zero cursor_x for a zero cursor_y too.
ValidatePipeData_CopiedMessage(cursor_x_1, cursor_y_1, lines_n, columns_n) ==
  IF lines_n = 0 THEN Err("KITTY_PIPE_DATA: lines must be at least 1", <<>>)
  ELSE IF columns_n = 0 THEN Err("KITTY_PIPE_DATA: columns must be at least 1", <<>>)
  ELSE IF cursor_x_1 = 0
    THEN Err("KITTY_PIPE_DATA: cursor_x must be at least 1 (1-based)", <<>>)
  ELSE IF cursor_y_1 = 0
    THEN Err("KITTY_PIPE_DATA: cursor_x must be at least 1 (1-based)", <<>>)
  ELSE IF cursor_x_1 > columns_n
    THEN Err("KITTY_PIPE_DATA: cursor_x ({}) must be at most columns ({})",
             <<cursor_x_1, columns_n>>)
  ELSE IF cursor_y_1 > lines_n
    THEN Err("KITTY_PIPE_DATA: cursor_y ({}) must be at most lines ({})",
             <<cursor_y_1, lines_n>>)
  ELSE [ok |-> TRUE,
        data |-> [cursor_x |-> cursor_x_1 - 1, cursor_y |-> cursor_y_1 - 1,
                  lines |-> lines_n, columns |-> columns_n]]

\* the checks of parse_pipe_data_str once the five fields have parsed
ValidatePipeData(cursor_x_1, cursor_y_1, lines_n, columns_n) ==
  IF lines_n = 0 THEN Err("KITTY_PIPE_DATA: lines must be at least 1", <<>>)
  ELSE IF columns_n = 0 THEN Err("KITTY_PIPE_DATA: columns must be at least 1", <<>>)
  ELSE IF cursor_x_1 = 0
    THEN Err("KITTY_PIPE_DATA: cursor_x must be at least 1 (1-based)", <<>>)
  ELSE IF cursor_y_1 = 0
    THEN Err("KITTY_PIPE_DATA: cursor_y must be at least 1 (1-based)", <<>>)
  ELSE IF cursor_x_1 > columns_n
    THEN Err("KITTY_PIPE_DATA: cursor_x ({}) must be at most columns ({})",
             <<cursor_x_1, columns_n>>)
  ELSE IF cursor_y_1 > lines_n
    THEN Err("KITTY_PIPE_DATA: cursor_y ({}) must be at most lines ({})",
             <<cursor_y_1, lines_n>>)
  ELSE [ok |-> TRUE,
        data |-> [cursor_x |-> cursor_x_1 - 1, cursor_y |-> cursor_y_1 - 1,
                  lines |-> lines_n, columns |-> columns_n]]

\* parse_pipe_data_str(s): Ok(PipeData) or the error's message
parse_pipe_data_str(s) ==
  LET t == trim(s)
      IsColon == {58}
      IsComma == {44}
      Parts == Err("KITTY_PIPE_DATA: expected 3 colon-separated parts", <<>>)
      first == split_once(t, IsColon)
  IN IF ~IsSome(first) THEN Parts
     ELSE LET part0 == Unwrap(first)[1]
              second == split_once(Unwrap(first)[2], IsColon)
          IN IF ~IsSome(second) THEN Parts
             ELSE LET part1 == Unwrap(second)[1]
                      part2 == Unwrap(second)[2]
                      scrolled_by == from_str_radix(part0, 10, USIZE_MAX)
                      cur == split_once(part1, IsComma)
                      cursor_x_1 == from_str_radix(Unwrap(cur)[1], 10, USIZE_MAX)
                      cursor_y_1 == from_str_radix(Unwrap(cur)[2], 10, USIZE_MAX)
                      size == split_once(part2, IsComma)
                      lines_n == from_str_radix(Unwrap(size)[1], 10, U16_MAX)
                      columns_n == from_str_radix(Unwrap(size)[2], 10, U16_MAX)
                      Cursor ==
                        Err("KITTY_PIPE_DATA: expected 'cursor_x,cursor_y' in second part, got '{}'",
                            <<part1>>)
                      Size ==
                        Err("KITTY_PIPE_DATA: expected 'lines,columns' in third part, got '{}'",
                            <<part2>>)
                  IN IF contains(part2, 58) THEN Parts
                     ELSE IF contains(part0, 44)
                       THEN Err("KITTY_PIPE_DATA: invalid scrolled_by '{}' (unexpected comma)",
                                <<part0>>)
                     ELSE IF ~IsSome(scrolled_by)
                       THEN Err("KITTY_PIPE_DATA: invalid scrolled_by", <<>>)
                     ELSE IF ~IsSome(cur) THEN Cursor
                     ELSE IF contains(Unwrap(cur)[2], 44) THEN Cursor
                     ELSE IF ~IsSome(cursor_x_1)
                       THEN Err("KITTY_PIPE_DATA: invalid cursor_x", <<>>)
                     ELSE IF ~IsSome(cursor_y_1)
                       THEN Err("KITTY_PIPE_DATA: invalid cursor_y", <<>>)
                     ELSE IF ~IsSome(size) THEN Size
                     ELSE IF contains(Unwrap(size)[2], 44) THEN Size
                     ELSE IF ~IsSome(lines_n)
                       THEN Err("KITTY_PIPE_DATA: invalid lines", <<>>)
                     ELSE IF ~IsSome(columns_n)
                       THEN Err("KITTY_PIPE_DATA: invalid columns", <<>>)
                     ELSE ValidatePipeData(Unwrap(cursor_x_1), Unwrap(cursor_y_1),
                                           Unwrap(lines_n), Unwrap(columns_n))

\* values of KITTY_PIPE_DATA: three parts and what can go wrong with each,
\* put together with and without surrounding whitespace, and texts with
\* fewer or more parts
PipeDataTexts ==
  LET ScrolledParts ==
        {Utf8("0"), Utf8("42"), Utf8("+7"), Utf8("abc"), Utf8("1,2"), Utf8("-1"),
         Utf8("99999999999999999999"), <<>>}
      CursorParts ==
        {Utf8("1,1"), Utf8("3,2"), Utf8("2,1"), Utf8("0,1"), Utf8("1,0"), Utf8("4,1"),
         Utf8("1,3"), Utf8("80,24"), Utf8("81,1"), Utf8("1,9999"), Utf8("x,1"),
         Utf8("1,y"), Utf8("1"), Utf8("1,2,3"), Utf8(","), Utf8("+2,01"), Utf8(" 1,1"),
         Utf8("99999999999999999999,1"), <<>>}
      SizeParts ==
        {Utf8("2,3"), Utf8("1,1"), Utf8("24,80"), Utf8("0,3"), Utf8("2,0"), Utf8("0,0"),
         Utf8("65535,65535"), Utf8("65536,3"), Utf8("2,65536"), Utf8("2"),
         Utf8("2,3,4"), Utf8("a,3"), Utf8("2,b"), Utf8("2, 3"), <<>>}
      Wraps == {<<<<>>, <<>>>>, <<<<>>, <<10>>>>, <<<<32, 9>>, <<13, 10>>>>}
  IN {w[1] \o a \o <<58>> \o b \o <<58>> \o c \o w[2] :
        a \in ScrolledParts, b \in CursorParts, c \in SizeParts, w \in Wraps}
     \cup {<<>>, Utf8("invalid"), Utf8("1,2:3"), Utf8("0:1,1"), Utf8("0:1,1:2,3:"),
           Utf8("0:1,1:2,3:4"), Utf8(":"), Utf8("::"), Utf8(":::")}

\* kitty::parse_pipe_data_str(&val)
CallParsePipeData ==
  /\ resolution = NoCall
  /\ \E s \in PipeDataTexts :
       resolution' = [call |-> "parse_pipe_data_str", arg |-> s,
                      ret |-> parse_pipe_data_str(s)]
  /\ UNCHANGED beyondResolution

\* ------------------------------------------------------------------ host-window identifier
\* u32::MAX is 4294967295; TLC's integers end at 2^31 - 1, and the identifiers
\* drawn are at most that or more than u32::MAX.
U32_MAX == 2147483647

\* parse_window_id with no check for zero.
parse_window_id_ZeroAccepted(s) ==
  LET id == from_str_radix(s, 10, U32_MAX)
  IN IF ~IsSome(id)
     THEN Err("invalid kitty window ID '{s}' -- expected a number (check your kitty.conf)",
              <<s>>)
     ELSE [ok |-> TRUE, id |-> Unwrap(id)]

\* parse_window_id(s) on the bytes of s: Ok(WindowId(id)) or the error
\* (the dash of the two messages written `--`)
parse_window_id(s) ==
  LET id == from_str_radix(s, 10, U32_MAX)
  IN IF ~IsSome(id)
     THEN Err("invalid kitty window ID '{s}' -- expected a number (check your kitty.conf)",
              <<s>>)
     ELSE IF Unwrap(id) = 0
       THEN Err("invalid kitty window ID '0' -- window IDs start at 1", <<>>)
     ELSE [ok |-> TRUE, id |-> Unwrap(id)]

\* parse_args(args): args[0] of the code is args[1] here
parse_args(args) ==
  IF Len(args) < 2
  THEN Err("missing required argument: <WINDOW_ID> or --tmux-pane <PANE_ID>", <<>>)
  ELSE LET arg == args[2]
       IN IF arg \in {"-h", "--help"} THEN [ok |-> TRUE, action |-> "ShowHelp"]
          ELSE IF arg \in {"-V", "--version"} THEN [ok |-> TRUE, action |-> "ShowVersion"]
          ELSE IF arg = "--generate-tmux-conf"
            THEN [ok |-> TRUE, action |-> "GenerateTmuxConf"]
          ELSE IF arg = "--tmux-pane"
            THEN IF Len(args) >= 3 /\ args[3] # ""
                 THEN [ok |-> TRUE, action |-> "RunTmux", pane_id |-> args[3]]
                 ELSE Err("--tmux-pane requires a pane ID argument", <<>>)
          ELSE IF Len(arg) >= 1 /\ SubSeq(arg, 1, 1) = "-"
            THEN Err("unexpected argument '{arg}'", <<arg>>)
          ELSE [ok |-> TRUE, action |-> "RunKitty", window_id_arg |-> arg]

\* The option of init.kak that carries a tmux pane: the line the pipeline
\* tests of main.rs look for.
tmux_pane_option(pane) ==
  "set-option global scrollback_tmux_pane_id '" \o escape_kak_single_quote(pane) \o "'"

\* std::env::args(): the command lines the program is started with
ArgLists ==
  LET WindowIdArgs ==
        {"42", "1", "042", "0", "00", "007", "+7", "+0", "+", "2147483647",
         "4294967296", "99999999999999999999", "", "abc", "$KITTY_WINDOW_ID",
         "@active-kitty-window-id", " 42", "42 ", "4 2", "1a", "0x1f", "1_000", "1,0"}
      PaneIds == {"%5", "%0", "some'target", "'", "0", "-t", "--tmux-pane"}
  IN {<<"ksb">>, <<"ksb", "-h">>, <<"ksb", "--help", "123">>, <<"ksb", "-V">>,
      <<"ksb", "--version">>, <<"ksb", "--generate-tmux-conf">>,
      <<"ksb", "--foo">>, <<"ksb", "-">>, <<"ksb", "-5">>,
      <<"ksb", "--tmux-pane">>, <<"ksb", "--tmux-pane", "">>,
      <<"ksb", "--tmux-pane", "", "%5">>}
     \cup {<<"ksb", "--tmux-pane", p>> : p \in PaneIds}
     \cup {<<"ksb", "--tmux-pane", p, "42">> : p \in PaneIds}
     \cup {<<"ksb", w>> : w \in WindowIdArgs}
     \cup {<<"ksb", w, "--tmux-pane", "%5">> : w \in WindowIdArgs}

\* main: parse_args(&args)
CallParseArgs ==
  /\ resolution = NoCall
  /\ \E args \in ArgLists :
       resolution' = [call |-> "parse_args", arg |-> args, ret |-> parse_args(args)]
  /\ UNCHANGED beyondResolution

\* run_kitty(&window_id_arg): kitty::parse_window_id, and the identifier's
\* option as write_init_kak writes it for the WindowId
ResolveKittyTarget ==
  /\ resolution.call = "parse_args"
  /\ resolution.ret.ok
  /\ resolution.ret.action = "RunKitty"
  /\ LET window_id_arg == resolution.ret.window_id_arg
         wid == parse_window_id(Utf8(window_id_arg))
     IN resolution' =
          [call |-> "parse_window_id", arg |-> window_id_arg, ret |-> wid,
           option |-> IF wid.ok
                      THEN Some(write_init_kak(screen, wid.id, tmp_dir,
                                               RangesPath(tmp_dir))[1])
                      ELSE None]
  /\ UNCHANGED beyondResolution

\* run_tmux(&pane_id): TargetId::Tmux(pane_id.to_string()), and the
\* identifier's option
ResolveTmuxTarget ==
  /\ resolution.call = "parse_args"
  /\ resolution.ret.ok
  /\ resolution.ret.action = "RunTmux"
  /\ LET pane_id == resolution.ret.pane_id
     IN resolution' =
          [call |-> "TargetId::Tmux", arg |-> pane_id,
           ret |-> [ok |-> TRUE, pane |-> pane_id],
           option |-> Some(tmux_pane_option(pane_id))]
  /\ UNCHANGED beyondResolution

NextParse ==
  \/ CallParseKittyColors
  \/ CallParsePipeData
  \/ CallParseArgs
  \/ ResolveKittyTarget
  \/ ResolveTmuxTarget

SpecParse == InitParse /\ [][NextParse]_allVars

\* ------------------------------------------------------------------ C21
\* C21: parse_kitty_colors returns a 48-byte palette without panicking for
\* every input text, also for lines it does not recognise and for colour
\* tokens with non-hex or multi-byte characters.
C21_ParsingNeverFails ==
  resolution.call = "parse_kitty_colors" =>
    /\ ~resolution.ret.panicked
    /\ Len(resolution.ret.palette) = 48
    /\ \A i \in 1..48 : resolution.ret.palette[i] \in 0..U8_MAX

\* ------------------------------------------------------------------ C22
\* the number a run of digit bytes writes in the given radix
RECURSIVE DigitsValue(_, _)
DigitsValue(ds, radix) ==
  IF ds = <<>> THEN 0
  ELSE DigitsValue(SubSeq(ds, 1, Len(ds) - 1), radix) * radix
       + (LET b == ds[Len(ds)]
          IN IF b \in 48..57 THEN b - 48
             ELSE IF b \in 97..102 THEN b - 87 ELSE b - 55)

IsDecimalRun(ds) == ds # <<>> /\ \A i \in 1..Len(ds) : ds[i] \in 48..57

IsHexRun(ds) ==
  \A i \in 1..Len(ds) : ds[i] \in (48..57) \cup (65..70) \cup (97..102)

\* a non-empty run of White_Space characters
IsWhitespaceRun(ws) == ws # <<>> /\ TrimStart(ws) = <<>>

\* the slot and the triple a line of the claimed shape names: `color`, a
\* run of decimal digits for N <= 15, whitespace, `#`, then 6 or 3 hex digits
ShapedWrites(raw) ==
  LET t == trim(raw)
  IN {[slot |-> DigitsValue(SubSeq(t, 6, j), 10),
       rgb |-> LET body == SubSeq(t, h + 1, Len(t))
               IN IF Len(body) = 6
                  THEN [c \in 1..3 |-> DigitsValue(SubSeq(body, 2 * c - 1, 2 * c), 16)]
                  ELSE [c \in 1..3 |-> DigitsValue(<<body[c]>>, 16) * 17]] :
        <<j, h>> \in {<<j, h>> \in (6..Len(t)) \X (8..Len(t)) :
                        /\ StartsWithBytes(t, ColorPrefix)
                        /\ j < h - 1
                        /\ IsDecimalRun(SubSeq(t, 6, j))
                        /\ DigitsValue(SubSeq(t, 6, j), 10) <= 15
                        /\ IsWhitespaceRun(SubSeq(t, j + 1, h - 1))
                        /\ t[h] = 35
                        /\ Len(t) - h \in {3, 6}
                        /\ IsHexRun(SubSeq(t, h + 1, Len(t)))}}

\* C22: parse_kitty_colors writes a palette slot only for a trimmed line made
\* of `color`, decimal digits parsing to N <= 15, whitespace and a token `#`
\* with exactly 6 or exactly 3 hex digits (each digit d of the short form
\* becoming d * 17); every other line leaves the palette as it was, so each
\* slot of the result holds its default or the triple of such a line.
C22_StrictLines ==
  resolution.call = "parse_kitty_colors" /\ ~resolution.ret.panicked =>
    LET ls == StrLines(resolution.arg)
        written == UNION {ShapedWrites(ls[k]) : k \in 1..Len(ls)}
    IN \A n \in 0..15 :
         LET Slot(p) == <<p[3 * n + 1], p[3 * n + 2], p[3 * n + 3]>>
         IN \/ Slot(resolution.ret.palette) = Slot(DEFAULT_PALETTE)
            \/ \E w \in written : w.slot = n /\ w.rgb = Slot(resolution.ret.palette)

\* ------------------------------------------------------------------ C23
\* the triple of slot n of palette p
SlotOf(p, n) == <<p[3 * n + 1], p[3 * n + 2], p[3 * n + 3]>>

\* C23: parse_kitty_colors("") is the default palette; parsing the sixteen
\* lines `colorN #RRGGBB` that serialize a palette returns that palette; and
\* when the lines name only some slots, these hold what their lines say and
\* every other slot keeps its default.
C23_RoundTrip ==
  resolution.call = "parse_kitty_colors" =>
    /\ resolution.arg = <<>> =>
         ~resolution.ret.panicked /\ resolution.ret.palette = DEFAULT_PALETTE
    /\ resolution.arg \in SerializedResponses =>
         /\ ~resolution.ret.panicked
         /\ \E order \in SlotOrders, upper \in BOOLEAN :
              /\ resolution.arg = Serialize(resolution.ret.palette, order, upper)
              /\ \A n \in 0..15 :
                   (\A i \in 1..Len(order) : order[i] # n) =>
                     SlotOf(resolution.ret.palette, n) = SlotOf(DEFAULT_PALETTE, n)

\* the sixteen upper-case lines of ThemePalette, last slot first
ThemeResponse == Serialize(ThemePalette, [i \in 1..16 |-> 16 - i], TRUE)

\* ThemePalette, which differs from the default in every slot, parsed back
\* from its lines
C23_Witness ==
  /\ resolution.call = "parse_kitty_colors"
  /\ resolution.ret = [panicked |-> FALSE, palette |-> ThemePalette]
  /\ resolution.arg = ThemeResponse
  /\ \A n \in 0..15 : SlotOf(ThemePalette, n) # SlotOf(DEFAULT_PALETTE, n)

\* ------------------------------------------------------------------ C24
\* t cut at every byte ch
Pieces(t, ch) ==
  LET cuts == {i \in 1..Len(t) : t[i] = ch} \cup {0, Len(t) + 1}
      Cut(k) == CHOOSE p \in cuts : Cardinality({q \in cuts : q < p}) = k - 1
  IN [k \in 1..(Cardinality(cuts) - 1) |-> SubSeq(t, Cut(k) + 1, Cut(k + 1) - 1)]

\* the number a run of decimal digits writes when it is at most max, as a
\* set: empty when it is more
RECURSIVE DigitsUpTo(_, _)
DigitsUpTo(ds, max) ==
  IF Len(ds) = 1 THEN {ds[1] - 48} \cap (0..max)
  ELSE LET d == ds[Len(ds)] - 48
       IN {high * 10 + d :
             high \in {h \in DigitsUpTo(SubSeq(ds, 1, Len(ds) - 1), max) :
                         h <= (max - d) \div 10}}

\* the number a text writes, an optional `+` and then decimal digits only,
\* when it is at most max, as a set: empty when the text is no such number
NumberUpTo(x, max) ==
  LET ds == IF x # <<>> /\ x[1] = 43 THEN Tail(x) ELSE x
  IN IF IsDecimalRun(ds) THEN DigitsUpTo(ds, max) ELSE {}

\* the fields of a text of the shape <scrolled_by>:<cx>,<cy>:<lines>,<columns>
\* that passes the range checks, as a set: empty when the text has another shape
ShapedPipeData(t) ==
  LET parts == Pieces(t, 58)
  IN IF Len(parts) # 3 THEN {}
     ELSE LET cur == Pieces(parts[2], 44)
              size == Pieces(parts[3], 44)
          IN IF Len(cur) # 2 \/ Len(size) # 2 THEN {}
             ELSE {[cx |-> cx, cy |-> cy, lines |-> ls, columns |-> cols] :
                     <<sb, cx, cy, ls, cols>> \in
                       {f \in NumberUpTo(parts[1], USIZE_MAX)
                              \X NumberUpTo(cur[1], USIZE_MAX)
                              \X NumberUpTo(cur[2], USIZE_MAX)
                              \X NumberUpTo(size[1], U16_MAX)
                              \X NumberUpTo(size[2], U16_MAX) :
                          /\ f[4] >= 1 /\ f[5] >= 1
                          /\ 1 <= f[2] /\ f[2] <= f[5]
                          /\ 1 <= f[3] /\ f[3] <= f[4]}}

\* C24: parse_pipe_data_str returns Ok exactly for trimmed inputs of the shape
\* <scrolled_by>:<cx>,<cy>:<lines>,<columns> -- three colon-separated parts,
\* two comma-separated numbers in the second and in the third -- with
\* lines >= 1, columns >= 1, 1 <= cx <= columns and 1 <= cy <= lines; an Ok
\* result has cursor_x = cx - 1 < columns and cursor_y = cy - 1 < lines and
\* does not depend on scrolled_by.
C24_PipeDataValidation ==
  resolution.call = "parse_pipe_data_str" =>
    LET shaped == ShapedPipeData(trim(resolution.arg))
    IN /\ resolution.ret.ok <=> shaped # {}
       /\ \A f \in shaped :
            /\ resolution.ret.ok
            /\ resolution.ret.data =
                 [cursor_x |-> f.cx - 1, cursor_y |-> f.cy - 1,
                  lines |-> f.lines, columns |-> f.columns]
            /\ resolution.ret.data.cursor_x < resolution.ret.data.columns
            /\ resolution.ret.data.cursor_y < resolution.ret.data.lines

\* the cursor in the last cell of a 24 x 80 grid, with a scrolled_by of 42
\* and a line feed after the text
C24_Witness ==
  /\ resolution.call = "parse_pipe_data_str"
  /\ resolution.ret = [ok |-> TRUE,
                       data |-> [cursor_x |-> 79, cursor_y |-> 23,
                                 lines |-> 24, columns |-> 80]]
  /\ resolution.arg = <<52, 50, 58, 56, 48, 44, 50, 52, 58, 50, 52, 44, 56, 48, 10>>

\* ------------------------------------------------------------------ C25
PipeDataPrefix == "KITTY_PIPE_DATA:"

\* the positions of s where sub begins
Occurrences(s, sub) ==
  {i \in 1..(Len(s) - Len(sub) + 1) : SubSeq(s, i, i + Len(sub) - 1) = sub}

PipeDataFields == {"lines", "columns", "cursor_x", "cursor_y", "scrolled_by"}

\* the fields of a text of three colon-separated parts that are invalid: no
\* number of the field's type, a part that is not two comma-separated values,
\* a zero, or a cursor beyond a valid size
OffendingFields(t) ==
  LET parts == Pieces(t, 58)
      cur == Pieces(parts[2], 44)
      size == Pieces(parts[3], 44)
      Bad(pair, k, max) ==
        Len(pair) # 2 \/ NumberUpTo(pair[k], max) \subseteq {0}
      Beyond(k, j) ==
        /\ Len(cur) = 2 /\ Len(size) = 2
        /\ \E c \in NumberUpTo(cur[k], USIZE_MAX), n \in NumberUpTo(size[j], U16_MAX) :
             n >= 1 /\ c > n
  IN (IF NumberUpTo(parts[1], USIZE_MAX) = {} THEN {"scrolled_by"} ELSE {})
     \cup (IF Bad(cur, 1, USIZE_MAX) \/ Beyond(1, 2) THEN {"cursor_x"} ELSE {})
     \cup (IF Bad(cur, 2, USIZE_MAX) \/ Beyond(2, 1) THEN {"cursor_y"} ELSE {})
     \cup (IF Bad(size, 1, U16_MAX) THEN {"lines"} ELSE {})
     \cup (IF Bad(size, 2, U16_MAX) THEN {"columns"} ELSE {})

\* C25 as claimed: every error of parse_pipe_data_str has a message that
\* starts with KITTY_PIPE_DATA: and names the offending field -- lines,
\* columns, cursor_x, cursor_y or scrolled_by -- and one error is reported
\* however many fields are invalid.
C25_ErrorNamesField ==
  resolution.call = "parse_pipe_data_str" /\ ~resolution.ret.ok =>
    /\ StartsWith(resolution.ret.fmt, PipeDataPrefix)
    /\ Cardinality(Occurrences(resolution.ret.fmt, PipeDataPrefix)) = 1
    /\ \E f \in PipeDataFields : Occurrences(resolution.ret.fmt, f) # {}

\* C25 as amended: every error of parse_pipe_data_str has one message that
\* starts with KITTY_PIPE_DATA:; for a text of exactly three colon-separated
\* parts the message names a field that is invalid; for any other text it is
\* `expected 3 colon-separated parts`, which names no field.
C25_ErrorNamesFieldOfThreeParts ==
  resolution.call = "parse_pipe_data_str" /\ ~resolution.ret.ok =>
    /\ StartsWith(resolution.ret.fmt, PipeDataPrefix)
    /\ Cardinality(Occurrences(resolution.ret.fmt, PipeDataPrefix)) = 1
    /\ IF Len(Pieces(trim(resolution.arg), 58)) = 3
       THEN \E f \in OffendingFields(trim(resolution.arg)) :
              Occurrences(resolution.ret.fmt, f) # {}
       ELSE /\ resolution.ret.fmt = "KITTY_PIPE_DATA: expected 3 colon-separated parts"
            /\ \A f \in PipeDataFields : Occurrences(resolution.ret.fmt, f) = {}

\* a text whose scrolled_by, cursor_y and columns are all invalid, reported
\* by its scrolled_by
C25_Witness ==
  /\ resolution.call = "parse_pipe_data_str"
  /\ resolution.arg = <<97, 98, 99, 58, 49, 44, 48, 58, 50, 44, 48>>
  /\ OffendingFields(resolution.arg) = {"scrolled_by", "cursor_y", "columns"}
  /\ resolution.ret = [ok |-> FALSE, fmt |-> "KITTY_PIPE_DATA: invalid scrolled_by",
                       args |-> <<>>]

\* ------------------------------------------------------------------ scrollback capacity
\* C26: the screen process_bytes returns has at most rows +
\* max_scrollback_lines lines; when more rows scrolled off than the capacity
\* allows, the rows left out are the oldest ones: the lines are the newest
\* rows + max_scrollback_lines rows of everything the bytes drew, in order,
\* less the trailing lines that whole-screen trimming removed; and
\* 1 <= cursor.line <= #lines.
\* A screen of blank rows only has no lines and its cursor on line 1.
C26_ScrollbackCapacity ==
  pc = "done" =>
    LET drawn == scrolled_off \o grid
        keep == Min(Len(drawn), pipe_data.lines + max_scrollback_lines)
        kept == SubSeq(drawn, Len(drawn) - keep + 1, Len(drawn))
        LineOf(r) == [text |-> TrimAsciiEnd(RowBytes(r)), spans |-> <<>>]
    IN /\ Len(lines) <= pipe_data.lines + max_scrollback_lines
       /\ Len(lines) <= keep
       /\ \A i \in 1..Len(lines) : lines[i] = LineOf(kept[i])
       /\ \A i \in (Len(lines) + 1)..keep : LineIsEmpty(LineOf(kept[i]))
       /\ 1 <= cursor.line
       /\ cursor.line <= Len(lines)

\* C26 (amended): as above, with 1 <= cursor.line <= max(1, #lines).
C26_ScrollbackCapacityOrNoLines ==
  pc = "done" =>
    LET drawn == scrolled_off \o grid
        keep == Min(Len(drawn), pipe_data.lines + max_scrollback_lines)
        kept == SubSeq(drawn, Len(drawn) - keep + 1, Len(drawn))
        LineOf(r) == [text |-> TrimAsciiEnd(RowBytes(r)), spans |-> <<>>]
    IN /\ Len(lines) <= pipe_data.lines + max_scrollback_lines
       /\ Len(lines) <= keep
       /\ \A i \in 1..Len(lines) : lines[i] = LineOf(kept[i])
       /\ \A i \in (Len(lines) + 1)..keep : LineIsEmpty(LineOf(kept[i]))
       /\ 1 <= cursor.line
       /\ cursor.line <= Max(1, Len(lines))

\* Three rows scrolled off an emulator of two rows that retains one: the
\* oldest two, a row of text and a blank row, are gone, and the cursor's line
\* is counted from the first row that is left.
C26_Witness ==
  /\ pc = "done"
  /\ max_scrollback_lines = 1
  /\ Len(scrolled_off) = 3
  /\ pipe_data.lines = 2
  /\ pipe_data.cursor_y = 1
  /\ scrolled_off[1] = [i \in 1..Columns |-> CellA]
  /\ scrolled_off[2] = [i \in 1..Columns |-> CellEmpty]
  /\ Len(lines) = 3
  /\ lines[1].text # <<>>
  /\ lines[2].text = <<>>
  /\ cursor.line = 3

U64_MAX == 2147483647

\* const MAX_STDIN_BYTES: u64 = 512 * 1024 * 1024
MAX_STDIN_BYTES == 536870912

\* OsString::into_string inside env::var: whether the bytes are UTF-8
is_utf8(bytes) ==
  LET n == Len(bytes)
      Cont(i) == i <= n /\ bytes[i] \in 128..191
      valid[i \in 1..(n + 1)] ==
        IF i = n + 1 THEN TRUE
        ELSE LET b == bytes[i]
             IN IF b < 128 THEN valid[i + 1]
                ELSE IF b \in 194..223 THEN Cont(i + 1) /\ valid[i + 2]
                ELSE IF b \in 224..239
                  THEN /\ Cont(i + 1)
                       /\ Cont(i + 2)
                       /\ (b = 224 => bytes[i + 1] >= 160)
                       /\ (b = 237 => bytes[i + 1] <= 159)
                       /\ valid[i + 3]
                ELSE IF b \in 240..244
                  THEN /\ Cont(i + 1)
                       /\ Cont(i + 2)
                       /\ Cont(i + 3)
                       /\ (b = 240 => bytes[i + 1] >= 144)
                       /\ (b = 244 => bytes[i + 1] <= 143)
                       /\ valid[i + 4]
                ELSE FALSE
  IN valid[1]

\* std::env::var(key) for a variable whose value in the environment is
\* os_value: Err(NotPresent) when unset, Err(NotUnicode) when the value is
\* not UTF-8, else Ok(value)
env_var(os_value) ==
  IF ~IsSome(os_value) THEN [ok |-> FALSE, err |-> "NotPresent"]
  ELSE IF is_utf8(Unwrap(os_value)) THEN [ok |-> TRUE, val |-> Unwrap(os_value)]
  ELSE [ok |-> FALSE, err |-> "NotUnicode"]

\* check_reentry(env_val)
check_reentry(env_val) ==
  IF IsSome(env_val) THEN Err("Already inside kakoune-scrollback", <<>>)
  ELSE [ok |-> TRUE]

\* read_input_bounded(reader, max_bytes) for a reader that yields input_len
\* bytes; the data is modelled by its length.  `max_bytes + 1` panics at
\* u64::MAX in a build with overflow checks and wraps to 0 in one without.
read_input_bounded(input_len, max_bytes, overflow_checks) ==
  IF max_bytes = U64_MAX /\ overflow_checks THEN [panicked |-> TRUE]
  ELSE LET limit == IF max_bytes = U64_MAX THEN 0 ELSE max_bytes + 1
           data_len == Min(input_len, limit)       \* take(limit).read_to_end
       IN [panicked |-> FALSE,
           ret |-> IF data_len <= max_bytes
                   THEN [ok |-> TRUE, len |-> data_len]
                   ELSE Err("scrollback input exceeds {max_bytes} bytes, aborting",
                            <<max_bytes>>)]

\* A TempDir going out of scope while the directory is left on disk.
drop_temp_dir_Leaked(dir, guard) == dir

\* A TempDir going out of scope: the directory and what is in it are removed
\* while the value owns the directory; after keep() there is no value left
\* to drop.
drop_temp_dir(dir, guard) == IF guard = "owned" THEN NoDir ELSE dir

\* materialize(screen, target), where fail names the first call that
\* returns Err ("none": every call succeeds).  `?` returns the error at
\* once, and tmp_dir is dropped on the way out.
materialize(fail) ==
  LET steps == <<"tempdir", "write_text", "write_ranges", "write_init_kak">>
      files == <<"text.txt", "ranges.kak", "init.kak">>
      f == IF fail = "none" THEN 5 ELSE CHOOSE i \in 1..4 : steps[i] = fail
      made == [exists |-> TRUE, artifacts |-> SubSeq(files, 1, Min(f, 5) - 2)]
  IN IF f = 5
     THEN [ok |-> TRUE, performed |-> steps, dir |-> made, guard |-> "owned"]
     ELSE IF f = 1
       THEN [ok |-> FALSE, performed |-> SubSeq(steps, 1, 1), dir |-> NoDir,
             guard |-> "none",
             err |-> Err("failed to create temporary directory", <<>>)]
     ELSE [ok |-> FALSE, performed |-> SubSeq(steps, 1, f),
           dir |-> drop_temp_dir(made, "owned"), guard |-> "none",
           \* the io::Error of the failed write; args names the call
           err |-> Err("{io::Error}", <<fail>>)]

\* build_kak_command(text_path, init_path)
build_kak_command(text_path, init_path) ==
  [program |-> "kak",
   env |-> [KAKOUNE_SCROLLBACK |-> <<49>>],          \* "1"
   args |-> <<"-e", "source '" \o escape_kak_single_quote(init_path) \o "'",
              text_path>>]

\* A run is started from the terminal: KAKOUNE_SCROLLBACK is unset, empty,
\* "1", "0", two bytes of UTF-8, or a byte that is not UTF-8; standard
\* input holds nothing, a few bytes, as many bytes as allowed, or one more.
InitRun ==
  /\ palette = DEFAULT_PALETTE
  /\ TerminalIdle
  /\ ResolutionIdle
  /\ OutputIdle
  /\ NormalizeIdle
  /\ environment \in {None, Some(<<>>), Some(<<49>>), Some(<<48>>),
                      Some(<<195, 169>>), Some(<<255>>)}
  /\ backend \in {"kitty", "tmux"}
  /\ run_pc = "start"
  /\ stdin_len \in {0, 5, MAX_STDIN_BYTES, MAX_STDIN_BYTES + 1}
  /\ performed = <<>>
  /\ scratch = NoDir
  /\ tmp_guard = "none"
  /\ run_result = None
  /\ editor = None
  /\ depth = 0

\* check_reentry(env::var("KAKOUNE_SCROLLBACK").ok().as_deref())?
CheckReentry ==
  /\ run_pc = "start"
  /\ LET v == env_var(environment)
         env_val == IF v.ok THEN Some(v.val) ELSE None      \* .ok()
         res == check_reentry(env_val)
     IN /\ performed' = Append(performed, "check_reentry")
        /\ IF res.ok
           THEN run_pc' = "metadata" /\ run_result' = run_result
           ELSE run_pc' = "returned" /\ run_result' = Some(res)
  /\ UNCHANGED <<environment, backend, stdin_len, scratch, tmp_guard, editor,
                 depth, resolution>>
  /\ UNCHANGED beyondRun

\* run_kitty: parse_pipe_data()?, parse_window_id(window_id_arg)?,
\* get_palette(window_id); run_tmux: check_version()?, the variable
\* SCROLLBACK_PIPE_DATA and parse_pipe_data_str(..)?.  The inputs are the
\* pipe-data variable, the window argument, whether tmux is recent enough,
\* and the response of kitty @ get-colors (None: the command failed).
ReadMetadata ==
  /\ run_pc = "metadata"
  /\ \E pipe_var \in {None, Some(Utf8("0:1,1:24,80")), Some(Utf8("0:1,25:24,80"))},
        window_id_arg \in {"42", "0"},
        version_ok \in BOOLEAN,
        colors \in {None, Some(Utf8("color0 #abcdef")),
                    Some(Utf8("color0 #abc") \o <<239, 191, 189>>)} :
       LET parsed ==
             IF IsSome(pipe_var) THEN parse_pipe_data_str(Unwrap(pipe_var))
             ELSE IF backend = "kitty"
               THEN Err("KITTY_PIPE_DATA environment variable not set", <<>>)
             ELSE Err("SCROLLBACK_PIPE_DATA not set (should be set by tmux keybinding)",
                      <<>>)
           wid == parse_window_id(Utf8(window_id_arg))
           pal == IF IsSome(colors) THEN parse_kitty_colors(Unwrap(colors))
                  ELSE [panicked |-> FALSE, palette |-> DEFAULT_PALETTE]
           Returns(calls_made, e) ==
             /\ performed' = performed \o calls_made
             /\ run_pc' = "returned"
             /\ run_result' = Some(e)
           Panics(calls_made) ==
             /\ performed' = performed \o calls_made
             /\ run_pc' = "panicked"
             /\ run_result' = run_result
           Goes(calls_made) ==
             /\ performed' = performed \o calls_made
             /\ run_pc' = "input"
             /\ run_result' = run_result
       IN IF backend = "kitty"
          THEN IF ~parsed.ok THEN Returns(<<"parse_pipe_data">>, parsed)
               ELSE IF ~wid.ok
                 THEN Returns(<<"parse_pipe_data", "parse_window_id">>, wid)
               ELSE IF pal.panicked
                 THEN Panics(<<"parse_pipe_data", "parse_window_id", "get_palette">>)
               ELSE Goes(<<"parse_pipe_data", "parse_window_id", "get_palette">>)
          ELSE IF ~version_ok
                 THEN Returns(<<"check_version">>,
                              Err("tmux 3.3 or later is required (found '{stripped}'). display-popup -b, -e, -T were added in tmux 3.3.",
                                  <<"3.2">>))
               ELSE IF ~parsed.ok
                 THEN Returns(<<"check_version", "parse_pipe_data_str">>, parsed)
               ELSE Goes(<<"check_version", "parse_pipe_data_str">>)
  /\ UNCHANGED <<environment, backend, stdin_len, scratch, tmp_guard, editor,
                 depth, resolution>>
  /\ UNCHANGED beyondRun

\* read_input_bounded(std::io::stdin(), MAX_STDIN_BYTES)?
ReadInput ==
  /\ run_pc = "input"
  /\ \E overflow_checks \in BOOLEAN :
       LET r == read_input_bounded(stdin_len, MAX_STDIN_BYTES, overflow_checks)
       IN /\ performed' = Append(performed, "read_input_bounded")
          /\ IF r.panicked THEN run_pc' = "panicked" /\ run_result' = run_result
             ELSE IF r.ret.ok THEN run_pc' = "core" /\ run_result' = run_result
             ELSE run_pc' = "returned" /\ run_result' = Some(r.ret)
  /\ UNCHANGED <<environment, backend, stdin_len, scratch, tmp_guard, editor,
                 depth, resolution>>
  /\ UNCHANGED beyondRun

\* From the input to the artifacts: normalize_capture (run_tmux only),
\* resolve_max_scrollback_lines, then run_core(..)?: process_screen and
\* materialize.
RunCore ==
  /\ run_pc = "core"
  /\ \E fail \in {"none", "tempdir", "write_text", "write_ranges", "write_init_kak"} :
       LET before ==
             (IF backend = "tmux" THEN <<"normalize_capture">> ELSE <<>>)
               \o <<"resolve_max_scrollback_lines", "process_screen">>
           m == materialize(fail)
       IN /\ performed' = performed \o before \o m.performed
          /\ scratch' = m.dir
          /\ tmp_guard' = m.guard
          /\ IF m.ok THEN run_pc' = "exec" /\ run_result' = run_result
             ELSE run_pc' = "returned" /\ run_result' = Some(m.err)
  /\ UNCHANGED <<environment, backend, stdin_len, editor, depth, resolution>>
  /\ UNCHANGED beyondRun

\* exec_kak(tmp_dir, &text_path, &init_path): keep(), then exec, which only
\* returns when it failed; then remove_dir_all and the error.
ExecKak ==
  /\ run_pc = "exec"
  /\ \E exec_ok \in BOOLEAN :
       LET cmd == build_kak_command("/tmp/ksb-1/text.txt", "/tmp/ksb-1/init.kak")
       IN /\ tmp_guard' = "kept"
          /\ IF exec_ok
             THEN /\ performed' = performed \o <<"keep", "exec">>
                  /\ scratch' = drop_temp_dir(scratch, "kept")
                  /\ run_pc' = "execed"
                  /\ run_result' = run_result
                  /\ editor' = Some(cmd.env.KAKOUNE_SCROLLBACK)
             ELSE /\ performed' = performed \o <<"keep", "exec", "remove_dir_all">>
                  /\ scratch' = NoDir
                  /\ run_pc' = "returned"
                  /\ run_result' = Some(Err("failed to exec kak", <<>>))
                  /\ editor' = editor
  /\ UNCHANGED <<environment, backend, stdin_len, depth, resolution>>
  /\ UNCHANGED beyondRun

\* The program is started again from inside the launched editor (its key
\* binding pressed in a terminal the editor opened, or a shell command of
\* the editor): the new process inherits the editor's environment.
InvokeFromEditor ==
  /\ IsSome(editor)
  /\ run_pc \in {"execed", "returned", "panicked"}
  /\ environment' = editor
  /\ backend' \in {"kitty", "tmux"}
  /\ stdin_len' \in {0, 5}
  /\ run_pc' = "start"
  /\ performed' = <<>>
  /\ scratch' = NoDir
  /\ tmp_guard' = "none"
  /\ run_result' = None
  /\ depth' = 1
  /\ UNCHANGED <<editor, resolution>>
  /\ UNCHANGED beyondRun

\* read_input_bounded called on its own, as tests::read_input_bounded_* do:
\* readers of 0 to 3 bytes, the limits 0, 1, 2 and u64::MAX
CallReadInputBounded ==
  /\ run_pc = "start"
  /\ depth = 0
  /\ \E input_len \in 0..3, max_bytes \in {0, 1, 2, U64_MAX},
        overflow_checks \in BOOLEAN :
       resolution' = [call |-> "read_input_bounded",
                      arg |-> <<input_len, max_bytes>>,
                      ret |-> read_input_bounded(input_len, max_bytes,
                                                 overflow_checks)]
  /\ UNCHANGED runVars
  /\ UNCHANGED beyondRun

NextRun ==
  \/ CheckReentry
  \/ ReadMetadata
  \/ ReadInput
  \/ RunCore
  \/ ExecKak
  \/ InvokeFromEditor
  \/ CallReadInputBounded

SpecRun == InitRun /\ [][NextRun]_allVars

\* C28: scratch-directory lifecycle.  In every run of run_kitty / run_tmux
\* the scratch directory exists at the end only if the editor was exec'ed
\* (and then holds the three artifacts, kept); when creating the directory or
\* writing an artifact fails, the directory is gone when the run returns,
\* no later artifact was written and keep() was never called; materialize
\* hands the directory over still owned by its TempDir; and when exec fails
\* after keep(), the directory is removed before the error is returned.
C28_ScratchLifecycle ==
  LET writes == <<"write_text", "write_ranges", "write_init_kak">>
      Made(c) == \E i \in 1..Len(performed) : performed[i] = c
      FailedIn(c) == run_result = Some(Err("{io::Error}", <<c>>))
  IN /\ run_pc \in {"returned", "panicked"} => ~scratch.exists
     /\ run_pc = "execed" =>
          /\ scratch = [exists |-> TRUE,
                        artifacts |-> <<"text.txt", "ranges.kak", "init.kak">>]
          /\ tmp_guard = "kept"
     /\ run_result = Some(Err("failed to create temporary directory", <<>>)) =>
          /\ ~scratch.exists
          /\ \A j \in 1..3 : ~Made(writes[j])
     /\ \A i \in 1..3 :
          FailedIn(writes[i]) =>
            /\ run_pc = "returned"
            /\ ~scratch.exists
            /\ ~Made("keep")
            /\ \A j \in (i + 1)..3 : ~Made(writes[j])
     /\ run_pc = "exec" => tmp_guard = "owned" /\ ~Made("keep")
     /\ run_result = Some(Err("failed to exec kak", <<>>)) =>
          /\ Made("keep")
          /\ performed[Len(performed)] = "remove_dir_all"
          /\ ~scratch.exists

\* write_ranges failed after text.txt was written: the run returned the
\* error and the directory is gone
C28_Witness ==
  /\ run_pc = "returned"
  /\ run_result = Some(Err("{io::Error}", <<"write_ranges">>))
  /\ \E i \in 1..Len(performed) : performed[i] = "write_text"
  /\ performed[Len(performed)] = "write_ranges"
  /\ ~scratch.exists

C30_ReentryGuard ==
  /\ performed /= <<>> => performed[1] = "check_reentry"
  /\ (IsSome(environment) /\ performed /= <<>>) =>
       /\ performed = <<"check_reentry">>
       /\ run_pc = "returned"
       /\ run_result = Some(Err("Already inside kakoune-scrollback", <<>>))
       /\ ~scratch.exists
  /\ IsSome(editor) => editor = Some(<<49>>)
  /\ depth = 1 => run_pc \notin {"exec", "execed"} /\ ~scratch.exists
====
